---- MODULE Spec2Model ----
(***************************************************************************)
(* Decision core of the ATM cash-distribution planner:                     *)
(*   - services/model_trainer.py     background training jobs   (Spec)     *)
(*   - services/route_optimizer.py   capacitated routing        (SpecRoute)*)
(*   - services/fallback_predictor.py + prediction_service.py              *)
(*                                   forecast resolution     (SpecForecast)*)
(* Each part has its own specification over its own variables; the         *)
(* variables of the other parts stay at their initial value.               *)
(***************************************************************************)
EXTENDS Integers, Sequences, FiniteSets, TLC

(***************************************************************************)
(* Bounds of the model                                                     *)
(***************************************************************************)
NumAtms == 1
MaxJobs == 2

ATMS == 1..NumAtms

(***************************************************************************)
(* Part 1: ModelTrainer / TrainingJob (services/model_trainer.py)          *)
(***************************************************************************)
VARIABLES
    jobs,       \* ModelTrainer.jobs: atm_id -> job object (0 = no entry)
    heap,       \* the TrainingJob objects ever created, by object identity
    wk,         \* the worker thread of each job: position, locals
    lastCall,   \* the last start_training call: the job it returned
    storage,    \* the profile and last-trained columns of each ATM row
    requested,  \* history: the dispensers start_training was ever called for
    request,    \* the arguments of the last optimize_routes call
    result,     \* the dictionary it returned
    files,      \* saved_models directory: dispenser -> kinds of model file
    txCount,    \* storage: dispenser -> number of its Transaction rows
    forecast,   \* the last call of get_prediction_for_atm and what it returned
    asked,      \* the arguments of the last call into ai_recommendations.py
    advised,    \* what that call returned
    disk,       \* saved_models directory: the artifact files of one dispenser
    writer,     \* the run of train_single_atm.py: its arguments and position
    seen        \* what the last reader of the artifact files made of them

trainerVars == <<jobs, heap, wk, lastCall, storage, requested>>
routeVars == <<request, result>>
forecastVars == <<files, txCount, forecast>>
adviceVars == <<asked, advised>>
artifactVars == <<disk, writer, seen>>

\* datetime.now() read into a job field; 0 stands for None
Now == 1

\* The values `models` takes at the call: the selections of the two
\* supported models; {} stands for both falsy arguments, None and [].
ModelArgs == SUBSET {"arima", "lstm"}

\* TrainingJob.__init__ line 24: models or ['arima', 'lstm']
DefaultModels(models) ==
    IF models = {} THEN {"arima", "lstm"} ELSE models

NoResults == [arima |-> "absent", lstm |-> "absent"]

\* TrainingJob.__init__
TrainingJob(atm_id, models) ==
    [atm_id       |-> atm_id,
     models       |-> DefaultModels(models),
     status       |-> "queued",
     progress     |-> 0,
     message      |-> "waiting",
     started_at   |-> 0,
     completed_at |-> 0,
     error        |-> "None",
     results      |-> NoResults]

\* mutation of IsActive: the test forgets the queued status
IsActive_mut(status) == status = "running"

\* start_training line 86: status in ['queued', 'running']
IsActive(status) == status \in {"queued", "running"}

\* the worker's locals before it has run
NewWorker ==
    [pc |-> "start", results |-> NoResults, exc |-> "None", attempt |-> 0,
     detected_profile |-> "None", dirty |-> FALSE]
\* the worker after its thread has ended (results is kept as the record of
\* what each training call gave)
Ended(w) ==
    [pc |-> "done", results |-> w.results, exc |-> "None", attempt |-> 0,
     detected_profile |-> "None", dirty |-> FALSE]

NoCall == [atm_id |-> 0, ret |-> 0, created |-> FALSE]

Allocated == 1..Len(heap)

\* two of the preset profile names (LOCATION_PROFILES); "None" stands for NULL
ProfileNames == {"hospital", "airport"}

\* an ATM row that has no override and was never trained
NewRow == [profile_override |-> "None", last_trained_profile |-> "None", last_trained_at |-> 0]

TrainerInit ==
    /\ jobs = [a \in ATMS |-> 0]
    /\ heap = << >>
    /\ wk = << >>
    /\ lastCall = NoCall
    /\ storage = [a \in ATMS |-> NewRow]
    /\ requested = {}

\* A job object that nothing refers to any more (not the table, not the
\* caller's handle, not a live thread) is freed by the runtime.
Freed ==
    [atm_id |-> 0, models |-> {}, status |-> "freed", progress |-> 0,
     message |-> "None", started_at |-> 0, completed_at |-> 0, error |-> "None",
     results |-> NoResults]

Referenced(j, jt, w, lc) ==
    \/ \E a \in ATMS : jt[a] = j
    \/ lc.ret = j
    \/ w[j].pc # "done"

\* the state after a step: the new table, objects, threads and handle
Store(jt, h, w, lc) ==
    /\ jobs' = jt
    /\ heap' = [j \in DOMAIN h |-> IF Referenced(j, jt, w, lc) THEN h[j] ELSE Freed]
    /\ wk' = w
    /\ lastCall' = lc
    /\ requested' = IF lc.ret = 0 THEN requested ELSE requested \cup {lc.atm_id}
    /\ UNCHANGED <<routeVars, forecastVars, adviceVars, artifactVars>>

\* start_training, the whole critical section (lines 84-98)
StartTraining(atm_id, models) ==
    /\ UNCHANGED storage
    /\ IF jobs[atm_id] # 0 /\ IsActive(heap[jobs[atm_id]].status)
       THEN Store(jobs, heap, wk,
                  [atm_id |-> atm_id, ret |-> jobs[atm_id], created |-> FALSE])
       ELSE /\ Len(heap) < MaxJobs
            /\ Store([jobs EXCEPT ![atm_id] = Len(heap) + 1],
                     Append(heap, TrainingJob(atm_id, models)),
                     Append(wk, NewWorker),
                     [atm_id |-> atm_id, ret |-> Len(heap) + 1, created |-> TRUE])

\* mutation of Removable: running jobs are removed too
Removable_mut(job, is_aged) == is_aged

\* clear_completed_jobs lines 273-276: the test that puts a job in to_remove
Removable(job, is_aged) ==
    /\ job.status \in {"completed", "failed"}
    /\ job.completed_at # 0
    /\ is_aged

\* clear_completed_jobs(max_age_hours); aged is the set of dispensers whose
\* job, if it has a completed_at, ended more than max_age_hours ago
ClearCompletedJobs(aged) ==
    /\ UNCHANGED storage
    /\ Store([a \in ATMS |->
                 IF jobs[a] # 0 /\ Removable(heap[jobs[a]], a \in aged)
                 THEN 0 ELSE jobs[a]],
             heap, wk, lastCall)

\* get_job_status: self.jobs.get(atm_id), 0 standing for None
get_job_status(atm_id) == jobs[atm_id]

\* _detect_atm_profile lines 2203-2207 for an ATM whose id, name and
\* location match no profile (line 2225: None, the default profile)
detect_atm_profile(row) ==
    IF row.profile_override # "None" THEN row.profile_override ELSE "None"

\* ATM.to_dict lines 353-357: the staleness flag of the snapshot
profile_changed(row) ==
    IF row.last_trained_profile # "None" /\ detect_atm_profile(row) # "None"
    THEN row.last_trained_profile # detect_atm_profile(row)
    ELSE FALSE

\* assign_profile_to_atm (app.py lines 2449-2493), committed
AssignProfile(atm_id, profile_name) ==
    /\ storage' = [storage EXCEPT ![atm_id].profile_override = profile_name]
    /\ Store(jobs, heap, wk, lastCall)

\* clear_profile_override (app.py lines 2496-2514), committed
ClearProfileOverride(atm_id) ==
    /\ storage' = [storage EXCEPT ![atm_id].profile_override = "None"]
    /\ Store(jobs, heap, wk, lastCall)

(***************************************************************************)
(* _train_worker(job), one action per step of the thread.  Every write the *)
(* worker makes goes to its own job object or to its locals.               *)
(***************************************************************************)
\* a step of job j's thread: the job's fields and the thread's locals after it
Step(j, job, worker) ==
    /\ UNCHANGED storage
    /\ Store(jobs, [heap EXCEPT ![j] = job], [wk EXCEPT ![j] = worker], lastCall)

\* the strings str(e) of the exceptions the worker can see
ALL_FAILED == "All model training attempts failed. Check logs for details."
CsvErrors  == {"Training data file not found", "Insufficient training data"}
DbErrors   == {"database is locked", "database error"}
IMPORT_ERROR == "cannot import name"

\* lines 111-114
WorkerStart(j) ==
    /\ wk[j].pc = "start"
    /\ Step(j, [heap[j] EXCEPT !.status = "running", !.started_at = Now,
                               !.message = "preparing", !.progress = 5],
               [wk[j] EXCEPT !.pc = "import"])

\* line 119: the import of the training module succeeds or raises ImportError
\* (ml_models/forecasting_models.py as it stands defines none of the
\* imported names)
WorkerImport(j, ok) ==
    /\ wk[j].pc = "import"
    /\ Step(j, heap[j], IF ok THEN [wk[j] EXCEPT !.pc = "load"]
                              ELSE [wk[j] EXCEPT !.pc = "except", !.exc = IMPORT_ERROR])

\* lines 121-122
WorkerLoad(j) ==
    /\ wk[j].pc = "load"
    /\ Step(j, [heap[j] EXCEPT !.message = "loading", !.progress = 10],
               [wk[j] EXCEPT !.pc = "csv"])

\* lines 128-149: the CSV is missing, too short (< 7 rows) or usable
WorkerCsv(j, outcome) ==
    /\ wk[j].pc = "csv"
    /\ IF outcome = "ok"
       THEN Step(j, [heap[j] EXCEPT !.message = "dataset loaded", !.progress = 30],
                    [wk[j] EXCEPT !.pc = "arima"])
       ELSE Step(j, heap[j], [wk[j] EXCEPT !.pc = "except", !.exc = outcome])

\* lines 154-156
WorkerArima(j) ==
    /\ wk[j].pc = "arima"
    /\ IF "arima" \in heap[j].models
       THEN Step(j, [heap[j] EXCEPT !.message = "training arima", !.progress = 40],
                    [wk[j] EXCEPT !.pc = "arima_train"])
       ELSE Step(j, heap[j], [wk[j] EXCEPT !.pc = "lstm"])

\* lines 160-172: train_arima_model returns metrics or raises
WorkerArimaTrain(j, ok) ==
    /\ wk[j].pc = "arima_train"
    /\ IF ok
       THEN Step(j, [heap[j] EXCEPT !.message = "arima trained", !.progress = 60],
                    [wk[j] EXCEPT !.pc = "lstm", !.results.arima = "metrics"])
       ELSE Step(j, [heap[j] EXCEPT !.message = "arima failed: arima error"],
                    [wk[j] EXCEPT !.pc = "lstm", !.results.arima = "arima error"])

\* lines 175-177
WorkerLstm(j) ==
    /\ wk[j].pc = "lstm"
    /\ IF "lstm" \in heap[j].models
       THEN Step(j, [heap[j] EXCEPT !.message = "training lstm", !.progress = 70],
                    [wk[j] EXCEPT !.pc = "lstm_train"])
       ELSE Step(j, heap[j], [wk[j] EXCEPT !.pc = "check"])

\* lines 181-193: train_lstm_model returns metrics or raises
WorkerLstmTrain(j, ok) ==
    /\ wk[j].pc = "lstm_train"
    /\ IF ok
       THEN Step(j, [heap[j] EXCEPT !.message = "lstm trained", !.progress = 90],
                    [wk[j] EXCEPT !.pc = "check", !.results.lstm = "metrics"])
       ELSE Step(j, [heap[j] EXCEPT !.message = "lstm failed: lstm error"],
                    [wk[j] EXCEPT !.pc = "check", !.results.lstm = "lstm error"])

\* mutation of successful_models: an error entry counts as a success
successful_models_mut(results) == {m \in {"arima", "lstm"} : results[m] # "absent"}

\* lines 196-199
successful_models(results) == {m \in {"arima", "lstm"} : results[m] = "metrics"}

\* lines 201-209
WorkerCheck(j) ==
    /\ wk[j].pc = "check"
    /\ IF successful_models(wk[j].results) = {}
       THEN Step(j, heap[j], [wk[j] EXCEPT !.pc = "except", !.exc = ALL_FAILED])
       ELSE Step(j, [heap[j] EXCEPT !.message = "completed", !.progress = 100,
                                    !.status = "completed", !.completed_at = Now,
                                    !.results = wk[j].results],
                    [wk[j] EXCEPT !.pc = "persist"])

\* lines 221-231 and 251-252: ATM.query.get finds the dispenser or not; when
\* it does, the two last-trained attributes are set in the thread's session
WorkerPersist(j, atm_found) ==
    /\ wk[j].pc = "persist"
    /\ Step(j, heap[j],
            IF atm_found
            THEN [wk[j] EXCEPT !.pc = "commit",
                               !.detected_profile = detect_atm_profile(storage[heap[j].atm_id]),
                               !.dirty = TRUE]
            ELSE Ended(wk[j]))

\* line 236
max_retries == 3

\* mutation of NextAttempt: the count of attempts starts again before it
\* reaches max_retries
NextAttempt_mut(attempt) == (attempt + 1) % (max_retries - 1)

\* line 237, for attempt in range(max_retries): the attempt after this one
NextAttempt(attempt) == attempt + 1

\* db.session.commit() of line 240 when it succeeds: the attributes set in
\* the session, if it still holds them, are written to the row
Committed(row, worker) ==
    IF worker.dirty
    THEN [row EXCEPT !.last_trained_profile = worker.detected_profile,
                     !.last_trained_at = Now]
    ELSE row

\* lines 237-250: one pass of the retry loop; db.session.commit() succeeds
\* or raises OperationalError with the text err.  The rollback of line 246
\* discards the attributes set at lines 230-231 from the session; an
\* exception that leaves the loop ends the application context, and with
\* it the session.
WorkerCommit(j, err) ==
    /\ wk[j].pc = "commit"
    /\ IF err = "None"
       THEN /\ storage' = [storage EXCEPT ![heap[j].atm_id] = Committed(@, wk[j])]
            /\ Store(jobs, heap, [wk EXCEPT ![j] = Ended(wk[j])], lastCall)
       ELSE IF err = "database is locked" /\ wk[j].attempt < max_retries - 1
            THEN Step(j, heap[j], [wk[j] EXCEPT !.attempt = NextAttempt(@), !.dirty = FALSE])
            ELSE Step(j, heap[j], [wk[j] EXCEPT !.pc = "except", !.exc = err,
                                               !.dirty = FALSE])

\* mutation of FailureProgress: the handler leaves the progress as it is
FailureProgress_mut(progress) == progress

\* line 264, the progress written by the handler
FailureProgress(progress) == 0

\* lines 254-264
WorkerExcept(j) ==
    /\ wk[j].pc = "except"
    /\ Step(j, [heap[j] EXCEPT !.status = "failed", !.error = wk[j].exc,
                               !.message = "training failed",
                               !.completed_at = Now,
                               !.progress = FailureProgress(@)],
               Ended(wk[j]))

\* the worker threads that exist, each at any of its steps
WorkerStep(j) ==
    \/ WorkerStart(j)
    \/ \E ok \in BOOLEAN : WorkerImport(j, ok)
    \/ WorkerLoad(j)
    \/ \E outcome \in {"ok"} \cup CsvErrors : WorkerCsv(j, outcome)
    \/ WorkerArima(j)
    \/ \E ok \in BOOLEAN : WorkerArimaTrain(j, ok)
    \/ WorkerLstm(j)
    \/ \E ok \in BOOLEAN : WorkerLstmTrain(j, ok)
    \/ WorkerCheck(j)
    \/ \E atm_found \in BOOLEAN : WorkerPersist(j, atm_found)
    \/ \E err \in {"None"} \cup DbErrors : WorkerCommit(j, err)
    \/ WorkerExcept(j)

TrainerNext ==
    \/ \E atm_id \in ATMS, models \in ModelArgs : StartTraining(atm_id, models)
    \/ \E aged \in SUBSET ATMS : ClearCompletedJobs(aged)
    \/ \E j \in Allocated : WorkerStep(j)

\* the trainer together with the two profile endpoints of app.py that write
\* the row the worker reads
ProfileNext ==
    \/ TrainerNext
    \/ \E atm_id \in ATMS, profile_name \in ProfileNames : AssignProfile(atm_id, profile_name)
    \/ \E atm_id \in ATMS : ClearProfileOverride(atm_id)

(***************************************************************************)
(* Part 2: RouteOptimizer (services/route_optimizer.py)                    *)
(* Amounts of cash are fixed-point numbers in thousandths of a unit.       *)
(***************************************************************************)
MaxStops == 3
MaxVehicles == 2

\* thousandths per unit of cash
Scale == 10 * 10 * 10
Amounts == {100 * Scale, 100 * Scale + 500}     \* required_amount: 100.0, 100.5
Capacities == {100 * Scale, 250 * Scale}        \* vehicle capacity: 100.0, 250.0

SeqsUpTo(S, lo, hi) == UNION {[1..n -> S] : n \in lo..hi}

RECURSIVE SumSeq(_)
SumSeq(s) == IF s = << >> THEN 0 ELSE Head(s) + SumSeq(Tail(s))

\* Python int() of a non-negative float: truncation (lines 90 and 93)
PyInt(x) == x \div Scale

\* Python round(x, 2): to the nearest hundredth, ties to even
Round2(x) ==
    LET q == x \div 10
        r == x % 10
    IN  IF r < 5 THEN q * 10
        ELSE IF r > 5 THEN (q + 1) * 10
        ELSE IF q % 2 = 0 THEN q * 10 ELSE (q + 1) * 10

\* line 90
demands(atms) == [n \in 1..Len(atms) |-> PyInt(atms[n])]
\* line 93
vehicle_capacities(vehicles) == [v \in 1..Len(vehicles) |-> PyInt(vehicles[v])]

\* The assignments the routing model of lines 96-126 admits before the
\* capacity dimension: every node other than the depot lies on exactly one
\* vehicle's path (no node is optional), in any order.
Assignments(nStops, nVehicles) ==
    LET Perms == {p \in [1..nStops -> 1..nStops] :
                    \A a, b \in 1..nStops : p[a] = p[b] => a = b}
        Owners == [1..nStops -> 1..nVehicles]
    IN  {[v \in 1..nVehicles |-> SelectSeq(p, LAMBDA n : o[n] = v)] :
            p \in Perms, o \in Owners}

\* mutation of WithinCapacity: the dimension is left unconstrained
WithinCapacity_mut(load, capacity) == TRUE

\* the Capacity dimension of lines 120-126: cumulated demand <= capacity
WithinCapacity(load, capacity) == load <= capacity

LoadOf(path, amount) == SumSeq([i \in 1..Len(path) |-> amount[path[i]]])

\* routing.SolveWithParameters: the solutions that satisfy the model
Solutions(atms, vehicles) ==
    {sol \in Assignments(Len(atms), Len(vehicles)) :
        \A v \in 1..Len(vehicles) :
            WithinCapacity(LoadOf(sol[v], demands(atms)), vehicle_capacities(vehicles)[v])}

\* mutation of route_stops: a stop is numbered by its node, not its place
route_stops_mut(path, atms) ==
    [i \in 1..Len(path) |->
        [sequence |-> path[i], atm |-> path[i], required_amount |-> atms[path[i]]]]

\* _extract_solution lines 177-193: the stops of one vehicle's path
route_stops(path, atms) ==
    [i \in 1..Len(path) |->
        [sequence |-> i, atm |-> path[i], required_amount |-> atms[path[i]]]]

\* _extract_solution lines 168-218: the route entry of vehicle v
RouteOf(v, path, atms, vehicles) ==
    LET stops == route_stops(path, atms)
        route_load == SumSeq([i \in 1..Len(stops) |-> stops[i].required_amount])
    IN  [vehicle          |-> v,
         vehicle_capacity |-> vehicles[v],
         stops            |-> stops,
         total_stops      |-> Len(stops),
         route_load       |-> route_load,
         total_load       |-> Round2(route_load)]

\* _extract_solution: routes of the vehicles that have stops, in vehicle order
RECURSIVE RoutesFrom(_, _, _, _)
RoutesFrom(v, sol, atms, vehicles) ==
    IF v > Len(vehicles) THEN << >>
    ELSE IF sol[v] = << >> THEN RoutesFrom(v + 1, sol, atms, vehicles)
    ELSE <<RouteOf(v, sol[v], atms, vehicles)>> \o RoutesFrom(v + 1, sol, atms, vehicles)

\* _extract_solution lines 223-231
ExtractSolution(sol, atms, vehicles) ==
    LET routes == RoutesFrom(1, sol, atms, vehicles)
    IN  [status       |-> "success",
         routes       |-> routes,
         total_routes |-> Len(routes),
         total_atms   |-> SumSeq([i \in 1..Len(routes) |-> routes[i].total_stops]),
         message      |-> "None"]

\* lines 146-152
NO_SOLUTION == "No solution found. Try reducing ATMs or increasing vehicle capacity."
FailedResult ==
    [status |-> "failed", routes |-> << >>, total_routes |-> 0, total_atms |-> 0,
     message |-> NO_SOLUTION]

\* line 78 (this dictionary has no status key)
NoAtmsResult ==
    [status |-> "None", routes |-> << >>, total_routes |-> 0, total_atms |-> 0,
     message |-> "No ATMs to visit"]

IdleResult ==
    [status |-> "idle", routes |-> << >>, total_routes |-> 0, total_atms |-> 0,
     message |-> "None"]

\* no call yet
RouteIdle ==
    /\ request = [atms |-> << >>, vehicles |-> << >>]
    /\ result = IdleResult

\* the arguments of a call: the candidates' required amounts and the
\* capacities of the vehicles (app.py takes care that there is a vehicle)
RouteInit ==
    /\ request \in [atms : SeqsUpTo(Amounts, 0, MaxStops),
                    vehicles : SeqsUpTo(Capacities, 1, MaxVehicles)]
    /\ result = IdleResult

\* one call, applied to the arguments drawn
Returns(dictionary) ==
    /\ result = IdleResult
    /\ result' = dictionary
    /\ UNCHANGED <<request, trainerVars, forecastVars, adviceVars, artifactVars>>

\* optimize_routes, reaching line 78: nothing to visit
OptimizeNoAtms ==
    /\ request.atms = << >>
    /\ Returns(NoAtmsResult)

\* optimize_routes, reaching line 142: the solver returns one of the
\* solutions of the model
OptimizeSolved ==
    /\ request.atms # << >>
    /\ \E sol \in Solutions(request.atms, request.vehicles) :
          Returns(ExtractSolution(sol, request.atms, request.vehicles))

\* optimize_routes, reaching line 146: the solver returns no solution,
\* because the model has none or because none was found in the time limit
OptimizeFailed ==
    /\ request.atms # << >>
    /\ Returns(FailedResult)

RouteNext == OptimizeNoAtms \/ OptimizeSolved \/ OptimizeFailed

(***************************************************************************)
(* Part 3: forecast resolution (services/fallback_predictor.py and         *)
(* services/prediction_service.py)                                         *)
(***************************************************************************)
NumDispensers == 3
MaxDays == 2

Dispensers == 1..NumDispensers          \* the ATM rows in storage
UnknownAtm == NumDispensers + 1         \* an id with no ATM row
Horizons == 1..MaxDays

\* "arima" is the pickle load_models reads (arima_model_atm_N.pkl, or
\* ensemble_atm_N.pkl which it prefers), "lstm" the .h5 file
FileKinds == {"arima", "lstm"}
TxCounts == {0, 29, 30}

\* storage coordinates on a line; geodesic distance is the gap between them
Pos(a) == 2 * a
Distance(a, b) == IF Pos(a) >= Pos(b) THEN Pos(a) - Pos(b) ELSE Pos(b) - Pos(a)

\* a Python value: a float or a list of floats
PyFloat(x) == [kind |-> "float", items |-> <<x>>]
PyList(xs) == [kind |-> "list", items |-> xs]
Repeat(x, n) == [i \in 1..n |-> x]

\* FallbackPredictor.has_trained_model / _atm_has_model
has_trained_model(a) == a \in Dispensers /\ files[a] # {}

\* PredictionService.load_models: ids 1..29 whose pickle exists
ServiceModels == {a \in Dispensers : a < 30 /\ "arima" \in files[a]}

Max(a, b) == IF a >= b THEN a ELSE b

\* PredictionService.predict_demand: prediction is what the model's
\* forecast()/predict() gave for days_ahead steps, << >> when both failed
predict_demand(atm_id, days_ahead, prediction) ==
    IF atm_id \notin ServiceModels THEN 100000
    ELSE IF prediction = << >> THEN 100000
    ELSE Max(0, prediction[Len(prediction)])

\* FallbackPredictor.find_nearest_atm_with_model with a session: the scan of
\* lines 56-71 over the other ATM rows in id order; 0 stands for None
RECURSIVE NearestScan(_, _, _, _)
NearestScan(atm_id, a, nearest, min_distance) ==
    IF a > NumDispensers THEN nearest
    ELSE IF a = atm_id \/ ~has_trained_model(a)
         THEN NearestScan(atm_id, a + 1, nearest, min_distance)
    ELSE IF min_distance = -1 \/ Distance(atm_id, a) < min_distance
         THEN NearestScan(atm_id, a + 1, a, Distance(atm_id, a))
    ELSE NearestScan(atm_id, a + 1, nearest, min_distance)

find_nearest_atm_with_model(atm_id) == NearestScan(atm_id, 1, 0, -1)

\* mutation of AutoMethod: the nearest neighbour is preferred to the history
AutoMethod_mut(atm_id, db) ==
    IF ~db THEN "conservative"
    ELSE IF atm_id \in Dispensers THEN "nearest"
    ELSE "conservative"

\* FallbackPredictor.predict lines 142-163: the method 'auto' resolves to
AutoMethod(atm_id, db) ==
    IF ~db THEN "conservative"
    ELSE IF atm_id \in Dispensers /\ txCount[atm_id] >= 30 THEN "historical"
    ELSE IF atm_id \in Dispensers THEN "nearest"
    ELSE "conservative"

\* _predict_historical: avg * 1.1 on weekdays, avg * 0.8 on weekends
\* (today = datetime.now().weekday())
predict_historical(days, avg, today) ==
    [i \in 1..days |-> IF (today + i - 1) % 7 < 5 THEN (avg * 11) \div 10
                                                  ELSE (avg * 8) \div 10]

\* FallbackPredictor.get_prediction_metadata
get_prediction_metadata(atm_id, db) ==
    IF has_trained_model(atm_id) THEN "trained_model"
    ELSE IF db /\ atm_id \in Dispensers /\ txCount[atm_id] >= 30 THEN "historical_average"
    ELSE IF db /\ atm_id \in Dispensers /\ txCount[atm_id] > 0 THEN "nearest_neighbor"
    ELSE "conservative_estimate"

NoForecast ==
    [atm_id |-> 0, days |-> 0, db |-> FALSE, raised |-> FALSE, tier |-> "None",
     neighbor |-> 0, predictions |-> PyList(<< >>), metadata |-> "None"]

\* no model file, no transaction, no call yet
ForecastIdle ==
    /\ files = [a \in Dispensers |-> {}]
    /\ txCount = [a \in Dispensers |-> 0]
    /\ forecast = NoForecast

\* the saved_models directory and the storage a call can find: the files
\* train_single_atm.py lines 80-84 and 138-145 write, the Transaction rows
\* app.py adds
ForecastInit ==
    /\ files \in [Dispensers -> SUBSET FileKinds]
    /\ txCount \in [Dispensers -> TxCounts]
    /\ forecast = NoForecast

\* what a fitted model's forecast(steps)/predict(steps) can give
ModelValues == {-5000, 80000}
ModelOutputs(days) == {<< >>} \cup [1..days -> ModelValues]

\* the call's arguments, whether its trained-model branch raised, the branch
\* that produced the value, and the dictionary returned
Returned(atm_id, days, db, raised, tier, neighbor, predictions) ==
    /\ forecast' = [atm_id |-> atm_id, days |-> days, db |-> db, raised |-> raised,
                    tier |-> tier, neighbor |-> neighbor, predictions |-> predictions,
                    metadata |-> get_prediction_metadata(atm_id, db)]
    /\ UNCHANGED <<files, txCount, trainerVars, routeVars, adviceVars, artifactVars>>

\* the fallback of line 301 is reached without a model file, or after the
\* trained-model branch raised (lines 296-298)
ReachesFallback(atm_id, raised) == raised <=> has_trained_model(atm_id)

\* get_prediction_for_atm, lines 283-295: the trained-model branch returns
ResolveTrained(atm_id, days, db, prediction) ==
    /\ has_trained_model(atm_id)
    /\ Returned(atm_id, days, db, FALSE, "trained_model", 0,
                PyFloat(predict_demand(atm_id, days, prediction)))

\* get_prediction_for_atm through predict -> _predict_historical;
\* avg is what get_historical_average returns
ResolveHistorical(atm_id, days, raised, avg, today) ==
    /\ ReachesFallback(atm_id, raised)
    /\ AutoMethod(atm_id, TRUE) = "historical"
    /\ Returned(atm_id, days, TRUE, raised, "historical_average", 0,
                PyList(predict_historical(days, avg, today)))

\* get_prediction_for_atm through predict -> _predict_nearest_neighbor
\* (nn_raised: the PredictionService of lines 192-198 raised)
ResolveNearest(atm_id, days, raised, prediction, nn_raised) ==
    /\ ReachesFallback(atm_id, raised)
    /\ AutoMethod(atm_id, TRUE) = "nearest"
    /\ LET nearest_atm_id == find_nearest_atm_with_model(atm_id)
       IN  Returned(atm_id, days, TRUE, raised, "nearest_neighbor", nearest_atm_id,
                    IF nearest_atm_id = 0 \/ nn_raised
                    THEN PyList(Repeat(50000, days))
                    ELSE PyFloat(predict_demand(nearest_atm_id, days, prediction)))

\* 60000 * (0.95 + 0.1 * random()), random() in [0, 1)
Jitter == {57000, 62999}

\* get_prediction_for_atm through predict -> _predict_conservative
ResolveConservative(atm_id, days, db, raised, values) ==
    /\ ReachesFallback(atm_id, raised)
    /\ AutoMethod(atm_id, db) = "conservative"
    /\ Returned(atm_id, days, db, raised, "conservative_estimate", 0, PyList(values))

\* what get_historical_average can return (50000 is its default)
Averages == {20000, 50000}

\* one call, applied to the environment drawn
Arguments == IF forecast = NoForecast THEN (Dispensers \cup {UnknownAtm}) \X Horizons ELSE {}

ForecastNext ==
    \E args \in Arguments :
      LET atm_id == args[1]
          days == args[2]
      IN
         \/ \E db \in BOOLEAN, prediction \in ModelOutputs(days) :
               ResolveTrained(atm_id, days, db, prediction)
         \/ \E raised \in BOOLEAN, avg \in Averages, today \in 0..6 :
               ResolveHistorical(atm_id, days, raised, avg, today)
         \/ \E raised, nn_raised \in BOOLEAN, prediction \in ModelOutputs(days) :
               ResolveNearest(atm_id, days, raised, prediction, nn_raised)
         \/ \E db, raised \in BOOLEAN, values \in [1..days -> Jitter] :
               ResolveConservative(atm_id, days, db, raised, values)

(***************************************************************************)
(* Part 4: recommendations and what-if analysis (ai_recommendations.py)    *)
(***************************************************************************)
NoQuestion == [fn |-> "None"]
NoAdvice == [fn |-> "None"]

\* no call yet
AdviceIdle ==
    /\ asked = NoQuestion
    /\ advised = NoAdvice

\* one call, applied to the arguments drawn
Advises(answer) ==
    /\ advised = NoAdvice
    /\ advised' = answer
    /\ UNCHANGED <<asked, trainerVars, routeVars, forecastVars, artifactVars>>

(***************************************************************************)
(* WhatIfAnalysis.emergency_rerouting.  The locations lie on one meridian, *)
(* (latitude, 0), and distances are in degrees of arc along it.            *)
(***************************************************************************)
MaxRoute == 3

Latitudes == 0..3

\* the planned stops of current_route['route'], the i-th with atm_id i
PlannedRoutes ==
    UNION {{[i \in 1..n |-> [atm_id |-> i, location |-> lat[i], type |-> "planned"]] :
               lat \in [1..n -> Latitudes]} : n \in 0..MaxRoute}

\* lines 396-410, for two points of the meridian
haversine_distance(loc1, loc2) == IF loc1 >= loc2 THEN loc1 - loc2 ELSE loc2 - loc1

\* lines 428-443: dist for the zero-based position i
InsertionDist(i, original_route, atm_location, vehicle_current_location) ==
    IF i = 0
    THEN haversine_distance(vehicle_current_location, atm_location)
         + (IF original_route # << >>
            THEN haversine_distance(atm_location, original_route[1].location)
            ELSE 0)
    ELSE IF i = Len(original_route)
    THEN haversine_distance(original_route[Len(original_route)].location, atm_location)
    ELSE haversine_distance(original_route[i].location, atm_location)
         + haversine_distance(atm_location, original_route[i + 1].location)
         - haversine_distance(original_route[i].location, original_route[i + 1].location)

\* lines 424-447: the scan over range(len(original_route) + 1), keeping the
\* first position of least dist; min_additional_distance -1 stands for inf
RECURSIVE BestInsertion(_, _, _, _, _, _)
BestInsertion(i, best_insertion_index, min_additional_distance, original_route, atm_location, vehicle_current_location) ==
    IF i > Len(original_route) THEN best_insertion_index
    ELSE LET dist == InsertionDist(i, original_route, atm_location,
                                   vehicle_current_location)
         IN  IF min_additional_distance = -1 \/ dist < min_additional_distance
             THEN BestInsertion(i + 1, i, dist, original_route, atm_location,
                                vehicle_current_location)
             ELSE BestInsertion(i + 1, best_insertion_index, min_additional_distance,
                                original_route, atm_location, vehicle_current_location)

\* lines 451-456
EmergencyStop(emergency_atm_id, atm_location) ==
    [atm_id |-> emergency_atm_id, location |-> atm_location, type |-> "emergency"]

\* mutation of ModifiedRoute: the emergency stop always goes to the end
ModifiedRoute_mut(original_route, best_insertion_index, stop) ==
    Append(original_route, stop)

\* lines 450-457: original_route[:k] + [stop] + original_route[k:]
ModifiedRoute(original_route, best_insertion_index, stop) ==
    SubSeq(original_route, 1, best_insertion_index) \o <<stop>>
        \o SubSeq(original_route, best_insertion_index + 1, Len(original_route))

\* emergency_rerouting: the dictionary of lines 459-471, with the caller's
\* route list as it is after the call (the slices of line 450 copy it)
emergency_rerouting(original_route, emergency_atm_id, atm_location, vehicle_current_location) ==
    LET best_insertion_index ==
            BestInsertion(0, 0, -1, original_route, atm_location,
                          vehicle_current_location)
        modified_route ==
            ModifiedRoute(original_route, best_insertion_index,
                          EmergencyStop(emergency_atm_id, atm_location))
    IN  [fn                    |-> "emergency_rerouting",
         insertion_index       |-> best_insertion_index,
         original_route_length |-> Len(original_route),
         modified_route_length |-> Len(modified_route),
         modified_route        |-> modified_route,
         recommended_position  |-> best_insertion_index + 1,
         route_after           |-> original_route]

\* the arguments of a call; the emergency dispenser is none of the planned
RerouteInit ==
    /\ asked \in [fn : {"emergency_rerouting"},
                  route : PlannedRoutes,
                  emergency_atm_id : {MaxRoute + 1},
                  atm_location : Latitudes,
                  vehicle_current_location : Latitudes]
    /\ advised = NoAdvice

EmergencyRerouting ==
    /\ asked.fn = "emergency_rerouting"
    /\ Advises(emergency_rerouting(asked.route, asked.emergency_atm_id,
                                   asked.atm_location, asked.vehicle_current_location))

RerouteNext == EmergencyRerouting

(***************************************************************************)
(* SmartRecommendationEngine.calculate_priority_score.  Amounts of cash    *)
(* are in thousands; a score is a whole number of ten-thousandths, the     *)
(* unit round(x, 4) rounds to.                                             *)
(***************************************************************************)
MaxDaysSinceRefill == 15

Min(a, b) == IF a <= b THEN a ELSE b

\* Python round(n / d, 4) in ten-thousandths, n / d being the value already
\* multiplied by 10^4: to the nearest, ties to even
RoundHalfEven(n, d) ==
    LET q == n \div d
        r == n % d
    IN  IF 2 * r < d THEN q
        ELSE IF 2 * r > d THEN q + 1
        ELSE IF q % 2 = 0 THEN q ELSE q + 1

\* mutation of time_factor: the cap at 2.0 is left out
time_factor_mut(days_since_last_refill) == days_since_last_refill

\* line 50: min(days_since_last_refill / 7.0, 2.0), in sevenths
time_factor(days_since_last_refill) == Min(days_since_last_refill, 2 * 7)

\* lines 53-61, in halves: 3.0, 2.0, 1.5, 1.0
urgency_factor(current_balance, capacity) ==
    IF 10 * current_balance < 2 * capacity THEN 6
    ELSE IF 10 * current_balance < 4 * capacity THEN 4
    ELSE IF 10 * current_balance < 6 * capacity THEN 3
    ELSE 2

\* calculate_priority_score: round(demand_ratio * time_factor *
\* urgency_factor, 4), 0.0 for capacity <= 0
calculate_priority_score(predicted_demand, capacity, days_since_last_refill, current_balance) ==
    IF capacity <= 0 THEN 0
    ELSE RoundHalfEven(predicted_demand * time_factor(days_since_last_refill)
                           * urgency_factor(current_balance, capacity) * 10000,
                       capacity * 7 * 2)

\* the arguments of a call
PriorityInit ==
    /\ asked \in [fn : {"calculate_priority_score"},
                  predicted_demand : {0, 100, 300, 400},
                  capacity : {0, 200},
                  days_since_last_refill : 0..MaxDaysSinceRefill,
                  current_balance : {0, 39, 40, 45, 80, 120, 200}]
    /\ advised = NoAdvice

CalculatePriorityScore ==
    /\ asked.fn = "calculate_priority_score"
    /\ Advises([fn |-> "calculate_priority_score",
                priority_score |->
                    calculate_priority_score(asked.predicted_demand, asked.capacity,
                                             asked.days_since_last_refill,
                                             asked.current_balance)])

PriorityNext == CalculatePriorityScore

(***************************************************************************)
(* SmartRecommendationEngine.identify_critical_atms                        *)
(***************************************************************************)
MaxAtmsData == 2

AtmIds == {1, 2}
DemandLists == {<< >>, <<100>>, <<300>>, <<200, 200>>}

\* ml_forecasts[atm_id]: no key, or the list of predicted daily demands
ForecastOptions ==
    {[known |-> FALSE, demands |-> << >>]}
        \cup {[known |-> TRUE, demands |-> d] : d \in DemandLists}

\* the entries of atms_data (without the key days_since_last_refill)
AtmEntries == [id : AtmIds, capacity : {0, 200}, current_balance : {45, 200}]

\* thresholds 0.5, 1.5 (the default) and 3.0, in ten-thousandths
Thresholds == {5000, 15000, 30000}
DEFAULT_THRESHOLD == 15 * 1000

\* mutation of Criticality: the caller's threshold is tested first
Criticality_mut(priority_score, threshold) ==
    IF priority_score >= threshold THEN "high"
    ELSE IF priority_score >= 25000 THEN "critical"
    ELSE IF priority_score >= 10000 THEN "medium"
    ELSE "low"

\* lines 192-199
Criticality(priority_score, threshold) ==
    IF priority_score >= 25000 THEN "critical"
    ELSE IF priority_score >= threshold THEN "high"
    ELSE IF priority_score >= 10000 THEN "medium"
    ELSE "low"

\* mutation of Retained: the critical class alone does not retain
Retained_mut(priority_score, threshold, criticality) == priority_score >= threshold

\* line 216
Retained(priority_score, threshold, criticality) ==
    priority_score >= threshold \/ criticality = "critical"

\* lines 162-167: the entry is skipped
Skipped(atm, ml_forecasts) ==
    ~ml_forecasts[atm.id].known \/ ml_forecasts[atm.id].demands = << >>

\* lines 170-213: atm_info of an entry that is not skipped
AtmInfo(atm, ml_forecasts, threshold) ==
    LET predicted_demands == ml_forecasts[atm.id].demands
        next_week_demand == SumSeq(SubSeq(predicted_demands, 1,
                                          Min(7, Len(predicted_demands))))
        days_since_last_refill == 5
        priority_score == calculate_priority_score(next_week_demand, atm.capacity,
                                                   days_since_last_refill,
                                                   atm.current_balance)
    IN  [atm_id         |-> atm.id,
         priority_score |-> priority_score,
         criticality    |-> Criticality(priority_score, threshold),
         capacity       |-> atm.capacity]

\* the loop of lines 158-217 over atms_data[1..n]: every atm_info built and
\* the list critical_atms; line 209 divides by the capacity and raises
\* ZeroDivisionError when it is 0
RECURSIVE CriticalLoop(_, _, _, _)
CriticalLoop(n, atms_data, ml_forecasts, threshold) ==
    IF n = 0 THEN [raised |-> FALSE, atm_infos |-> << >>, critical_atms |-> << >>]
    ELSE LET before == CriticalLoop(n - 1, atms_data, ml_forecasts, threshold)
             atm == atms_data[n]
             atm_info == AtmInfo(atm, ml_forecasts, threshold)
         IN  IF before.raised \/ Skipped(atm, ml_forecasts) THEN before
             ELSE IF atm.capacity = 0 THEN [before EXCEPT !.raised = TRUE]
             ELSE [raised        |-> FALSE,
                   atm_infos     |-> Append(before.atm_infos, atm_info),
                   critical_atms |->
                       IF Retained(atm_info.priority_score, threshold,
                                   atm_info.criticality)
                       THEN Append(before.critical_atms, atm_info)
                       ELSE before.critical_atms]

\* list.sort(key=priority_score, reverse=True) keeps the entries of equal
\* priority in the order they have in the list
RECURSIVE InsertByPriority(_, _)
InsertByPriority(x, sorted) ==
    IF sorted = << >> THEN <<x>>
    ELSE IF Head(sorted).priority_score >= x.priority_score
         THEN <<Head(sorted)>> \o InsertByPriority(x, Tail(sorted))
    ELSE <<x>> \o sorted

RECURSIVE SortByPriority(_)
SortByPriority(list) ==
    IF list = << >> THEN << >>
    ELSE InsertByPriority(list[Len(list)], SortByPriority(SubSeq(list, 1, Len(list) - 1)))

\* identify_critical_atms: the list returned at line 222, or the exception
identify_critical_atms(atms_data, ml_forecasts, threshold) ==
    LET loop == CriticalLoop(Len(atms_data), atms_data, ml_forecasts, threshold)
    IN  [fn            |-> "identify_critical_atms",
         raised        |-> loop.raised,
         atm_infos     |-> loop.atm_infos,
         critical_atms |-> IF loop.raised THEN << >>
                           ELSE SortByPriority(loop.critical_atms)]

\* the arguments of a call
CriticalInit ==
    /\ asked \in [fn : {"identify_critical_atms"},
                  atms_data : SeqsUpTo(AtmEntries, 0, MaxAtmsData),
                  ml_forecasts : [AtmIds -> ForecastOptions],
                  threshold : Thresholds]
    /\ advised = NoAdvice

IdentifyCriticalAtms ==
    /\ asked.fn = "identify_critical_atms"
    /\ Advises(identify_critical_atms(asked.atms_data, asked.ml_forecasts,
                                      asked.threshold))

CriticalNext == IdentifyCriticalAtms

(***************************************************************************)
(* WhatIfAnalysis.vehicle_breakdown_simulation.  Costs, scores and         *)
(* latitudes are whole numbers of thousandths; a rounded score is a whole  *)
(* number of hundredths.                                                   *)
(***************************************************************************)
MaxFleet == 2

\* a vehicle of available_vehicles; its id is its place in the list
FleetVehicles(id) ==
    [id : {id},
     status : {"available", "maintenance"},
     capacity : {100, 200},
     fuel_efficiency : {10, 20},
     current_location : {0, 1, 4}]

Fleets == UNION {{f \in [1..n -> UNION {FleetVehicles(id) : id \in 1..n}] :
                    \A id \in 1..n : f[id].id = id} : n \in 0..MaxFleet}

\* mutation of Suitable: the status is not looked at
Suitable_mut(vehicle, broken_vehicle_id, route_total_cash_needed) ==
    /\ vehicle.id # broken_vehicle_id
    /\ vehicle.capacity >= route_total_cash_needed

\* lines 491-501: the vehicles that pass the three tests of the loop
Suitable(vehicle, broken_vehicle_id, route_total_cash_needed) ==
    /\ vehicle.id # broken_vehicle_id
    /\ vehicle.status = "available"
    /\ vehicle.capacity >= route_total_cash_needed

\* lines 503-508: (total_distance / fuel_efficiency) * 1.5, in thousandths
fuel_cost(vehicle, current_route) ==
    (current_route.total_distance * 1500) \div vehicle.fuel_efficiency

\* lines 510-512: the difference of the two latitudes
distance_factor(vehicle, current_route) ==
    IF vehicle.current_location >= current_route.start_location
    THEN vehicle.current_location - current_route.start_location
    ELSE current_route.start_location - vehicle.current_location

\* line 514, in thousandths
BlendedScore(vehicle, current_route) ==
    fuel_cost(vehicle, current_route) + distance_factor(vehicle, current_route)

\* lines 516-524: the entry of a suitable vehicle
Alternative(vehicle, current_route) ==
    [vehicle_id |-> vehicle.id,
     capacity |-> vehicle.capacity,
     fuel_efficiency |-> vehicle.fuel_efficiency,
     estimated_fuel_cost |-> RoundHalfEven(fuel_cost(vehicle, current_route), 10),
     priority_score |-> RoundHalfEven(BlendedScore(vehicle, current_route), 10)]

\* the loop of lines 491-524 over available_vehicles[1..n]
RECURSIVE Alternatives(_, _, _, _)
Alternatives(n, available_vehicles, current_route, broken_vehicle_id) ==
    IF n = 0 THEN << >>
    ELSE LET before == Alternatives(n - 1, available_vehicles, current_route,
                                    broken_vehicle_id)
         IN  IF Suitable(available_vehicles[n], broken_vehicle_id,
                         current_route.total_cash_needed)
             THEN Append(before, Alternative(available_vehicles[n], current_route))
             ELSE before

\* line 527: list.sort(key=priority_score) keeps the entries of equal score
\* in the order they have in the list
RECURSIVE InsertByScore(_, _)
InsertByScore(x, sorted) ==
    IF sorted = << >> THEN <<x>>
    ELSE IF Head(sorted).priority_score <= x.priority_score
         THEN <<Head(sorted)>> \o InsertByScore(x, Tail(sorted))
    ELSE <<x>> \o sorted

RECURSIVE SortByScore(_)
SortByScore(list) ==
    IF list = << >> THEN << >>
    ELSE InsertByScore(list[Len(list)], SortByScore(SubSeq(list, 1, Len(list) - 1)))

\* lines 529-545; recommended_vehicle "None" stands for the missing key
vehicle_breakdown_simulation(current_route, available_vehicles, broken_vehicle_id) ==
    LET alternatives ==
            SortByScore(Alternatives(Len(available_vehicles), available_vehicles,
                                     current_route, broken_vehicle_id))
    IN  IF alternatives = << >>
        THEN [fn |-> "vehicle_breakdown_simulation",
              status |-> "critical",
              alternatives_found |-> 0,
              recommended_vehicle |-> "None",
              all_alternatives |-> << >>]
        ELSE [fn |-> "vehicle_breakdown_simulation",
              status |-> "resolved",
              alternatives_found |-> Len(alternatives),
              recommended_vehicle |-> alternatives[1],
              all_alternatives |-> alternatives]

\* the arguments of a call: a route of 100 km that needs 200 in cash and
\* starts at latitude 0, the fleet, and the vehicle that broke down
BreakdownInit ==
    /\ asked \in [fn : {"vehicle_breakdown_simulation"},
                  current_route : [total_cash_needed : {200},
                                   total_distance : {100},
                                   start_location : {0}],
                  available_vehicles : Fleets,
                  broken_vehicle_id : 1..(MaxFleet + 1)]
    /\ advised = NoAdvice

VehicleBreakdownSimulation ==
    /\ asked.fn = "vehicle_breakdown_simulation"
    /\ Advises(vehicle_breakdown_simulation(asked.current_route, asked.available_vehicles,
                                            asked.broken_vehicle_id))

BreakdownNext == VehicleBreakdownSimulation

(***************************************************************************)
(* FallbackPredictor.find_nearest_atm_with_model as a call of its own      *)
(***************************************************************************)
\* mutation of find_nearest: the scan starts from min_distance 0
find_nearest_mut(atm_id, db) ==
    IF ~db THEN 1 ELSE NearestScan(atm_id, 1, 0, 0)

\* lines 42-71: without a session the answer is ATM 1 (lines 42-44), with
\* one it is the scan's; 0 stands for None
find_nearest(atm_id, db) ==
    IF ~db THEN 1 ELSE find_nearest_atm_with_model(atm_id)

\* the model files in the directory, the predictor's dispenser and whether
\* the predictor was made with a session
NearestInit ==
    /\ files \in [Dispensers -> SUBSET FileKinds]
    /\ txCount = [a \in Dispensers |-> 0]
    /\ forecast = NoForecast
    /\ asked \in [fn : {"find_nearest_atm_with_model"}, atm_id : Dispensers, db : BOOLEAN]
    /\ advised = NoAdvice

FindNearestAtmWithModel ==
    /\ asked.fn = "find_nearest_atm_with_model"
    /\ Advises([fn |-> "find_nearest_atm_with_model",
                nearest_atm |-> find_nearest(asked.atm_id, asked.db)])

NearestNext == FindNearestAtmWithModel

(***************************************************************************)
(* SmartRecommendationEngine.get_optimal_refill_frequency.  The demands,   *)
(* the capacity and the balance are whole numbers; a quotient is kept as   *)
(* its numerator and denominator.                                          *)
(***************************************************************************)
MaxSeries == 2

\* predicted daily demands, capacities and balances
SeriesDemands == {0, 100, 130, 200}
SeriesCapacities == {0, 1000}
SeriesBalances == {0, 100, 450, 1000, 3000}

SumSquares(xs) == SumSeq([i \in 1..Len(xs) |-> xs[i] * xs[i]])

\* n^2 times the variance np.std squares: n * sum(x^2) - sum(x)^2
VarianceN2(xs) == Len(xs) * SumSquares(xs) - SumSeq(xs) * SumSeq(xs)

\* lines 102-111: the safety buffer in fifths (0.8, 0.6, 0.4) and the
\* confidence; cv = std / avg, and 0 when avg is not positive, so that
\* cv < 0.2 is 25 * variance < avg^2 and cv < 0.4 is 25 * variance < 4 * avg^2
Variability(xs) ==
    IF SumSeq(xs) <= 0 THEN [safety_buffer |-> 4, confidence |-> "high"]
    ELSE IF 25 * VarianceN2(xs) < SumSeq(xs) * SumSeq(xs)
         THEN [safety_buffer |-> 4, confidence |-> "high"]
    ELSE IF 25 * VarianceN2(xs) < 4 * SumSeq(xs) * SumSeq(xs)
         THEN [safety_buffer |-> 3, confidence |-> "medium"]
    ELSE [safety_buffer |-> 2, confidence |-> "low"]

\* lines 96-99: days_until_empty = current_balance / avg_daily_demand as a
\* fraction, 30 when the average is not positive
days_until_empty(xs, current_balance) ==
    IF SumSeq(xs) > 0
    THEN [num |-> current_balance * Len(xs), den |-> SumSeq(xs)]
    ELSE [num |-> 30, den |-> 1]

\* mutation of Clamp: the cap at 14 is left out
Clamp_mut(days) == Max(1, days)

\* line 115: max(1, min(recommended_days, 14))
Clamp(days) == Max(1, Min(days, 14))

\* lines 118-129
FrequencyOf(recommended_days) ==
    IF recommended_days <= 2 THEN "daily"
    ELSE IF recommended_days <= 4 THEN "every_2_days"
    ELSE IF recommended_days <= 7 THEN "weekly"
    ELSE "bi_weekly"

\* "None" stands for the key frequency that the dictionary of lines 83-87
\* does not have; line 114 is int() of a non-negative product
get_optimal_refill_frequency(predicted_demands, capacity, current_balance) ==
    IF predicted_demands = << >> \/ capacity <= 0
    THEN [fn |-> "get_optimal_refill_frequency", recommended_days |-> 7,
          confidence |-> "low", frequency |-> "None"]
    ELSE LET d == days_until_empty(predicted_demands, current_balance)
             v == Variability(predicted_demands)
             recommended_days == Clamp((d.num * v.safety_buffer) \div (d.den * 5))
         IN  [fn |-> "get_optimal_refill_frequency",
              recommended_days |-> recommended_days,
              confidence |-> v.confidence,
              frequency |-> FrequencyOf(recommended_days)]

FrequencyInit ==
    /\ asked \in [fn : {"get_optimal_refill_frequency"},
                  predicted_demands : SeqsUpTo(SeriesDemands, 0, MaxSeries),
                  capacity : SeriesCapacities,
                  current_balance : SeriesBalances]
    /\ advised = NoAdvice

GetOptimalRefillFrequency ==
    /\ asked.fn = "get_optimal_refill_frequency"
    /\ Advises(get_optimal_refill_frequency(asked.predicted_demands, asked.capacity,
                                            asked.current_balance))

FrequencyNext == GetOptimalRefillFrequency

(***************************************************************************)
(* Part 5: the training endpoint (app.py, train_atm_model)                 *)
(***************************************************************************)
\* line 1973
REQUIRED_TRANSACTIONS == 30

\* lines 1973-1979: the 400 answer 'Insufficient data for training'
Rejects(transaction_count) == transaction_count < REQUIRED_TRANSACTIONS

\* the handle left by a request the endpoint answered with 400: no job
Rejection(atm_id) == [atm_id |-> atm_id, ret |-> 0, created |-> FALSE]

\* POST /api/atms/<atm_id>/train-model (lines 1961-1993) for an ATM that
\* exists; transaction_count is the count of the ATM's Transaction rows
TrainAtmModel(atm_id, transaction_count, models) ==
    IF Rejects(transaction_count)
    THEN /\ UNCHANGED storage
         /\ Store(jobs, heap, wk, Rejection(atm_id))
    ELSE StartTraining(atm_id, models)

\* the endpoint and the worker threads its jobs start
EndpointNext ==
    \/ \E atm_id \in ATMS, transaction_count \in TxCounts, models \in ModelArgs :
           TrainAtmModel(atm_id, transaction_count, models)
    \/ \E j \in Allocated : WorkerStep(j)

(***************************************************************************)
(* Part 6: the artifact files of one dispenser, written by                 *)
(* ml_models/train_single_atm.py and read by FallbackPredictor and         *)
(* PredictionService.  A file is absent, complete ("old" from the previous *)
(* training, "new" from this one) or "partial": opened for writing and not *)
(* yet closed.                                                             *)
(***************************************************************************)
NoFiles == [arima |-> "absent", lstm |-> "absent", scaler |-> "absent"]
NoRun == [models |-> {}, pc |-> "done"]
NothingSeen == [fn |-> "None"]

ArtifactIdle ==
    /\ disk = NoFiles
    /\ writer = NoRun
    /\ seen = NothingSeen

\* --models arima | lstm | both (main, lines 162-163, 183-187)
RunModels == {{"arima"}, {"lstm"}, {"arima", "lstm"}}

\* the directory holds what earlier complete trainings left; the script starts
ArtifactInit ==
    /\ \E arima \in {"absent", "old"}, lstm \in {"absent", "old"} :
           disk = [arima |-> arima, lstm |-> lstm, scaler |-> lstm]
    /\ writer \in [models : RunModels, pc : {"arima"}]
    /\ seen = NothingSeen

\* os.path.exists / Path.exists
Exists(file) == file # "absent"

Complete(file) == file \in {"old", "new"}

\* a step of the script: the files and its position after it
Writes(files_after, pc) ==
    /\ disk' = files_after
    /\ writer' = [writer EXCEPT !.pc = pc]
    /\ UNCHANGED <<seen, trainerVars, routeVars, forecastVars, adviceVars>>

\* train_arima_model up to open(model_path, 'wb') (lines 75-85): not asked
\* for, or the fit raises and nothing is written, or the file is opened,
\* which creates or truncates it
TrainArima(ok) ==
    /\ writer.pc = "arima"
    /\ IF "arima" \in writer.models /\ ok
       THEN Writes([disk EXCEPT !.arima = "partial"], "arima_dump")
       ELSE Writes(disk, "lstm")

\* pickle.dump(fitted_model, f) and the close of the with block (line 86)
DumpArima ==
    /\ writer.pc = "arima_dump"
    /\ Writes([disk EXCEPT !.arima = "new"], "lstm")

\* train_lstm_model up to model.save (lines 95-146): not asked for, or
\* TensorFlow is missing or the fit raises; or model.save opens model_path
TrainLstm(ok) ==
    /\ writer.pc = "lstm"
    /\ IF "lstm" \in writer.models /\ ok
       THEN Writes([disk EXCEPT !.lstm = "partial"], "lstm_save")
       ELSE Writes(disk, "done")

\* model.save(str(model_path)) returns (line 146)
SaveLstm ==
    /\ writer.pc = "lstm_save"
    /\ Writes([disk EXCEPT !.lstm = "new"], "scaler")

\* open(scaler_path, 'wb') (line 148)
OpenScaler ==
    /\ writer.pc = "scaler"
    /\ Writes([disk EXCEPT !.scaler = "partial"], "scaler_dump")

\* pickle.dump(scaler, f) and the close (line 149)
DumpScaler ==
    /\ writer.pc = "scaler_dump"
    /\ Writes([disk EXCEPT !.scaler = "new"], "done")

\* a reader's call: what it read and what it made of it
Sees(observation) ==
    /\ seen' = observation
    /\ UNCHANGED <<disk, writer, trainerVars, routeVars, forecastVars, adviceVars>>

\* FallbackPredictor.has_trained_model (lines 26-30)
model_exists(files_now) == Exists(files_now.arima) \/ Exists(files_now.lstm)

HasTrainedModel ==
    /\ writer # NoRun
    /\ Sees([fn |-> "has_trained_model", files |-> disk, trained |-> model_exists(disk)])

\* PredictionService.load_models for the dispenser (lines 47-85): pickle.load
\* and load_model raise on a file that is not complete.  An error at the
\* ARIMA file reaches the outer handler, which empties every dictionary; an
\* error at the LSTM files is caught at line 76, after lstm_models[atm_id]
\* was assigned when it is the scaler that fails.
load_models(files_now) ==
    IF files_now.arima = "partial"
    THEN [models |-> "None", lstm_models |-> "None", lstm_scalers |-> "None"]
    ELSE [models |-> IF Exists(files_now.arima) THEN files_now.arima ELSE "None",
          lstm_models |->
              IF Exists(files_now.lstm) /\ Exists(files_now.scaler)
                    /\ Complete(files_now.lstm)
              THEN files_now.lstm ELSE "None",
          lstm_scalers |->
              IF Exists(files_now.lstm) /\ Exists(files_now.scaler)
                    /\ Complete(files_now.lstm) /\ Complete(files_now.scaler)
              THEN files_now.scaler ELSE "None"]

LoadModels ==
    /\ writer # NoRun
    /\ Sees([fn |-> "load_models", files |-> disk, loaded |-> load_models(disk)])

ArtifactNext ==
    \/ \E ok \in BOOLEAN : TrainArima(ok)
    \/ DumpArima
    \/ \E ok \in BOOLEAN : TrainLstm(ok)
    \/ SaveLstm
    \/ OpenScaler
    \/ DumpScaler
    \/ HasTrainedModel
    \/ LoadModels

(***************************************************************************)
(* Part 7: the distances and costs of a plan (RouteOptimizer.              *)
(* _extract_solution lines 168-231).  Locations lie on one line; a         *)
(* distance is a whole number of ten-thousandths of a kilometre, a rounded *)
(* distance or cost a whole number of hundredths.                          *)
(***************************************************************************)
\* where the depot lies (0 or 0.5 km) and where the dispensers lie (1.0,
\* 1.2345 and 3.0006 km)
DepotPositions == {0, 5000}
StopPositions == {10000, 12345, 30006}

\* vehicle.get('fuel_cost_per_km', 2.0), per kilometre
FuelCosts == {2, 3}

\* create_distance_matrix (lines 34-56): kilometres between two locations
distance_matrix(from, to) == IF from >= to THEN from - to ELSE to - from

\* line 87: (distance_matrix * 1000).astype(int), whole metres
distance_matrix_int(from, to) == distance_matrix(from, to) \div 10

\* routing.GetArcCostForVehicle(previous_index, index, vehicle_id) / 1000.0
\* (line 197): the arc's whole metres as kilometres
ArcCost(from, to) == distance_matrix_int(from, to) * 10

\* the location of the k-th node of a vehicle's path; positions is
\* all_locations, the depot at index 0, which is the start and the end node
NodePosition(path, positions, k) ==
    IF k = 0 \/ k > Len(path) THEN positions[0] ELSE positions[path[k]]

\* the while loop of lines 177-197: every arc from routing.Start to the end
\* node, the arc from the last stop to the end node included
ArcsDistance(path, positions) ==
    SumSeq([k \in 1..(Len(path) + 1) |->
               ArcCost(NodePosition(path, positions, k - 1),
                       NodePosition(path, positions, k))])

\* lines 199-202: route_nodes holds the depot and the stops, so its length
\* is above 1 exactly when the path has a stop
ReturnToDepot(path, positions) ==
    IF Len(path) + 1 > 1
    THEN distance_matrix(NodePosition(path, positions, Len(path)), positions[0])
    ELSE 0

route_distance(path, positions) ==
    ArcsDistance(path, positions) + ReturnToDepot(path, positions)

\* line 205
route_cost(path, positions, fuel_cost_per_km) ==
    route_distance(path, positions) * fuel_cost_per_km

\* lines 207-221: the route entry of vehicle v, with the unrounded values
\* the totals are summed from
CostedRoute(v, path, positions, fuel) ==
    [vehicle        |-> v,
     path           |-> path,
     route_distance |-> route_distance(path, positions),
     route_cost     |-> route_cost(path, positions, fuel[v]),
     total_distance |-> RoundHalfEven(route_distance(path, positions), 100),
     estimated_cost |-> RoundHalfEven(route_cost(path, positions, fuel[v]), 100)]

\* lines 168-221: only the vehicles whose path has a stop give a route
RECURSIVE CostedRoutesFrom(_, _, _, _)
CostedRoutesFrom(v, sol, positions, fuel) ==
    IF v > Len(sol) THEN << >>
    ELSE IF sol[v] = << >> THEN CostedRoutesFrom(v + 1, sol, positions, fuel)
    ELSE <<CostedRoute(v, sol[v], positions, fuel)>>
            \o CostedRoutesFrom(v + 1, sol, positions, fuel)

\* lines 223-231
extract_solution(sol, positions, fuel) ==
    LET routes == CostedRoutesFrom(1, sol, positions, fuel)
    IN  [fn |-> "extract_solution",
         status |-> "success",
         routes |-> routes,
         total_distance |->
             RoundHalfEven(SumSeq([i \in 1..Len(routes) |-> routes[i].route_distance]), 100),
         total_cost |->
             RoundHalfEven(SumSeq([i \in 1..Len(routes) |-> routes[i].route_cost]), 100)]

\* a solution the solver returned for the dispensers at positions, and the
\* fuel cost of each vehicle
CostInit ==
    /\ \E nStops \in 1..MaxStops, nVehicles \in 1..MaxVehicles :
           asked \in [fn : {"extract_solution"},
                      positions : {[n \in 0..nStops |-> IF n = 0 THEN d ELSE p[n]] :
                                      d \in DepotPositions, p \in [1..nStops -> StopPositions]},
                      solution : Assignments(nStops, nVehicles),
                      fuel : [1..nVehicles -> FuelCosts]]
    /\ advised = NoAdvice

ExtractCosts ==
    /\ asked.fn = "extract_solution"
    /\ Advises(extract_solution(asked.solution, asked.positions, asked.fuel))

CostNext == ExtractCosts

(***************************************************************************)
(* Part 8: RouteOptimizer.optimize_single_route (lines 233-290), with the  *)
(* locations and distances of Part 7                                       *)
(***************************************************************************)
MaxTour == 3

\* mutation of NearestUnvisited: the farthest node is taken
NearestUnvisited_mut(current, unvisited, positions) ==
    CHOOSE x \in unvisited :
        \A y \in unvisited :
            \/ distance_matrix(positions[current], positions[x])
                  > distance_matrix(positions[current], positions[y])
            \/ /\ distance_matrix(positions[current], positions[x])
                     = distance_matrix(positions[current], positions[y])
               /\ x <= y

\* line 262: min(unvisited, key=distance from current); min keeps the first
\* of equal keys, and a set of small ints is iterated in ascending order
NearestUnvisited(current, unvisited, positions) ==
    CHOOSE x \in unvisited :
        \A y \in unvisited :
            \/ distance_matrix(positions[current], positions[x])
                  < distance_matrix(positions[current], positions[y])
            \/ /\ distance_matrix(positions[current], positions[x])
                     = distance_matrix(positions[current], positions[y])
               /\ x <= y

\* the while loop of lines 261-266 and the return leg of line 269
RECURSIVE NearestNeighbourLoop(_, _, _, _, _)
NearestNeighbourLoop(unvisited, current, route, total_distance, positions) ==
    IF unvisited = {}
    THEN [route |-> route,
          total_distance |->
              total_distance + distance_matrix(positions[current], positions[0])]
    ELSE LET nearest == NearestUnvisited(current, unvisited, positions)
         IN  NearestNeighbourLoop(unvisited \ {nearest}, nearest, Append(route, nearest),
                 total_distance
                    + distance_matrix(positions[current], positions[nearest]),
                 positions)

\* positions is all_locations, the depot at index 0; "None" stands for the
\* key total_stops that the dictionary of line 249 does not have
optimize_single_route(positions) ==
    LET n == Cardinality(DOMAIN positions) - 1
    IN  IF n = 0
        THEN [fn |-> "optimize_single_route", stops |-> << >>, total_distance |-> 0,
              total_stops |-> "None"]
        ELSE LET tour == NearestNeighbourLoop(1..n, 0, <<0>>, 0, positions)
                 route == tour.route
             IN  [fn |-> "optimize_single_route",
                  stops |-> [seq \in 1..n |->
                      [sequence |-> seq,
                       atm |-> route[seq + 1],
                       distance_from_previous |->
                           RoundHalfEven(distance_matrix(positions[route[seq]],
                                                         positions[route[seq + 1]]), 100)]],
                  total_distance |-> RoundHalfEven(tour.total_distance, 100),
                  total_stops |-> n]

\* the depot and the dispensers to visit
TourInit ==
    /\ \E n \in 0..MaxTour :
           asked \in [fn : {"optimize_single_route"},
                      positions : {[k \in 0..n |-> IF k = 0 THEN d ELSE p[k]] :
                                      d \in DepotPositions, p \in [1..n -> StopPositions]}]
    /\ advised = NoAdvice

OptimizeSingleRoute ==
    /\ asked.fn = "optimize_single_route"
    /\ Advises(optimize_single_route(asked.positions))

TourNext == OptimizeSingleRoute

(***************************************************************************)
(* Specifications                                                          *)
(***************************************************************************)
vars == <<jobs, heap, wk, lastCall, storage, requested, request, result, files, txCount, forecast,
         asked, advised, disk, writer, seen>>

Init == TrainerInit /\ RouteIdle /\ ForecastIdle /\ AdviceIdle /\ ArtifactIdle
Next == TrainerNext
Spec == Init /\ [][Next]_vars

InitEndpoint == TrainerInit /\ RouteIdle /\ ForecastIdle /\ AdviceIdle /\ ArtifactIdle
NextEndpoint == EndpointNext
SpecEndpoint == InitEndpoint /\ [][NextEndpoint]_vars

InitArtifact == TrainerInit /\ RouteIdle /\ ForecastIdle /\ AdviceIdle /\ ArtifactInit
NextArtifact == ArtifactNext
SpecArtifact == InitArtifact /\ [][NextArtifact]_vars

InitCost == TrainerInit /\ RouteIdle /\ ForecastIdle /\ CostInit /\ ArtifactIdle
NextCost == CostNext
SpecCost == InitCost /\ [][NextCost]_vars

InitBreakdown == TrainerInit /\ RouteIdle /\ ForecastIdle /\ BreakdownInit /\ ArtifactIdle
NextBreakdown == BreakdownNext
SpecBreakdown == InitBreakdown /\ [][NextBreakdown]_vars

InitNearest == TrainerInit /\ RouteIdle /\ NearestInit /\ ArtifactIdle
NextNearest == NearestNext
SpecNearest == InitNearest /\ [][NextNearest]_vars

InitTour == TrainerInit /\ RouteIdle /\ ForecastIdle /\ TourInit /\ ArtifactIdle
NextTour == TourNext
SpecTour == InitTour /\ [][NextTour]_vars

InitFrequency == TrainerInit /\ RouteIdle /\ ForecastIdle /\ FrequencyInit /\ ArtifactIdle
NextFrequency == FrequencyNext
SpecFrequency == InitFrequency /\ [][NextFrequency]_vars

\* The trainer with its threads scheduled fairly: a thread that has not
\* ended is not left waiting forever (threading.Thread of lines 94-96; the
\* calls a step makes return).
Fairness == \A j \in 1..MaxJobs : WF_vars(j \in Allocated /\ WorkerStep(j))
SpecFair == Init /\ [][Next]_vars /\ Fairness

InitProfile == TrainerInit /\ RouteIdle /\ ForecastIdle /\ AdviceIdle /\ ArtifactIdle
NextProfile == ProfileNext
SpecProfile == InitProfile /\ [][NextProfile]_vars

InitRoute == TrainerInit /\ RouteInit /\ ForecastIdle /\ AdviceIdle /\ ArtifactIdle
NextRoute == RouteNext
SpecRoute == InitRoute /\ [][NextRoute]_vars

InitForecast == TrainerInit /\ RouteIdle /\ ForecastInit /\ AdviceIdle /\ ArtifactIdle
NextForecast == ForecastNext
SpecForecast == InitForecast /\ [][NextForecast]_vars

InitReroute == TrainerInit /\ RouteIdle /\ ForecastIdle /\ RerouteInit /\ ArtifactIdle
NextReroute == RerouteNext
SpecReroute == InitReroute /\ [][NextReroute]_vars

InitPriority == TrainerInit /\ RouteIdle /\ ForecastIdle /\ PriorityInit /\ ArtifactIdle
NextPriority == PriorityNext
SpecPriority == InitPriority /\ [][NextPriority]_vars

InitCritical == TrainerInit /\ RouteIdle /\ ForecastIdle /\ CriticalInit /\ ArtifactIdle
NextCritical == CriticalNext
SpecCritical == InitCritical /\ [][NextCritical]_vars

(***************************************************************************)
(* Properties of the training jobs                                         *)
(***************************************************************************)
Live == {j \in Allocated : heap[j].status # "freed"}
Running(j) == heap[j].status \in {"queued", "running"}

\* a step that is a start_training call for a dispenser whose table entry is
\* queued or running
CallOnActive ==
    /\ lastCall' # lastCall
    /\ jobs[lastCall'.atm_id] # 0
    /\ Running(jobs[lastCall'.atm_id])

StartIsNoOp ==
    CallOnActive =>
        LET j == jobs[lastCall'.atm_id]
        IN  /\ lastCall'.ret = j
            /\ ~lastCall'.created
            /\ jobs' = jobs
            /\ Len(heap') = Len(heap)
            /\ wk' = wk
            /\ heap'[j] = heap[j]

OneActiveJobPerDispenser ==
    \A j1, j2 \in Live :
        (heap[j1].atm_id = heap[j2].atm_id /\ Running(j1) /\ Running(j2)) => j1 = j2

\* C1: a start_training(d) call made while d's job is queued or running
\* returns that existing job, inserts no job, starts no worker and leaves the
\* job's fields as they are; at most one job per dispenser is queued or
\* running in every reachable state.
C1_JobSingleton == []OneActiveJobPerDispenser /\ [][StartIsNoOp]_vars

\* a second call for the dispenser returned the job that is still active
C1_Witness ==
    /\ lastCall.ret # 0
    /\ ~lastCall.created
    /\ Running(lastCall.ret)
    /\ jobs[lastCall.atm_id] = lastCall.ret

Finished(j) == j \in Live /\ wk[j].pc = "done"
Requested(j) == heap[j].models
ModelErrors == {"arima error", "lstm error"}

\* C6 (as claimed): a finished job in which a requested model trained is
\* completed, whatever the other model and the later commit did, and its
\* results hold the metrics or the error of every requested model.
C6_CompletedIfOneSucceeds ==
    \A j \in Allocated :
        (Finished(j) /\ successful_models(wk[j].results) # {}) =>
            /\ heap[j].status = "completed"
            /\ \A m \in Requested(j) : heap[j].results[m] \in {"metrics"} \cup ModelErrors

\* every requested model was tried and raised
AllRequestedFailed(j) == \A m \in Requested(j) : wk[j].results[m] \in ModelErrors

\* the error of the model that failed last (ARIMA is trained before LSTM)
LastModelError(j) == IF "lstm" \in Requested(j) THEN "lstm error" ELSE "arima error"

\* C7 (as claimed): a finished job whose requested models all failed is
\* failed and its error is the error of the model that failed last.
C7_Original ==
    \A j \in Allocated :
        (Finished(j) /\ AllRequestedFailed(j)) =>
            /\ heap[j].status = "failed"
            /\ heap[j].error = LastModelError(j)

\* C7 (amended): a finished job whose requested models all failed is failed
\* and its error is the fixed text raised at line 203; the models' own
\* errors are not kept in the job, whose results stay empty.
C7_AllFailed ==
    \A j \in Allocated :
        (Finished(j) /\ AllRequestedFailed(j)) =>
            /\ heap[j].status = "failed"
            /\ heap[j].error = ALL_FAILED
            /\ heap[j].results = NoResults

\* both requested models failed and the job has ended
C7_Witness ==
    \E j \in Allocated :
        /\ Finished(j)
        /\ Requested(j) = {"arima", "lstm"}
        /\ AllRequestedFailed(j)
        /\ heap[j].status = "failed"

ProgressInRange == \A j \in Allocated : heap[j].progress \in 0..100

\* C8 (as claimed): progress is in 0..100 and never decreases from one step
\* to the next, on every path of the worker.
C8_Original ==
    /\ []ProgressInRange
    /\ [][\A j \in Allocated :
            (j \in Live /\ heap'[j].status # "freed") =>
                heap'[j].progress >= heap[j].progress]_vars

\* the step in which job j's failure handler runs
FailureStep(j) == wk[j].pc = "except" /\ wk'[j].pc = "done"

\* C8 (amended): progress is in 0..100 and never decreases from one worker
\* step to the next, except in the step of the failure handler, which sets
\* it to 0.
C8_ProgressMonotoneUntilFailure ==
    /\ []ProgressInRange
    /\ [][\A j \in Allocated :
            (j \in Live /\ heap'[j].status # "freed") =>
                IF FailureStep(j) THEN heap'[j].progress = 0
                ELSE heap'[j].progress >= heap[j].progress]_vars

\* a job that had reached progress 100 and was then marked failed
C8_Witness ==
    \E j \in Allocated :
        /\ Finished(j)
        /\ heap[j].status = "failed"
        /\ heap[j].error \in DbErrors
        /\ heap[j].progress = 0

(***************************************************************************)
(* Properties of the route plans                                           *)
(***************************************************************************)
Succeeded == result.status = "success"

\* the sum of the required amounts of the first k stops of a route
PrefixLoad(route, k) == SumSeq([i \in 1..k |-> route.stops[i].required_amount])

RouteWithinCapacity(route) ==
    /\ \A k \in 1..Len(route.stops) : PrefixLoad(route, k) <= route.vehicle_capacity
    /\ route.total_load <= route.vehicle_capacity

\* C2 (as claimed): in a successful plan the load at every prefix of every
\* route, and the reported total_load, is at most the vehicle's capacity,
\* for whole and fractional amounts alike.
C2_CapacityInvariant ==
    Succeeded => \A r \in 1..Len(result.routes) : RouteWithinCapacity(result.routes[r])

Served == UNION {{result.routes[r].stops[i].atm : i \in 1..Len(result.routes[r].stops)} :
                    r \in 1..Len(result.routes)}

Called == result.status # "idle"
TotalRequired == SumSeq(request.atms)
TotalCapacity == SumSeq(request.vehicles)

\* three dispensers requiring 100 units each, one vehicle of capacity 250
RoundTripScenario ==
    /\ Called
    /\ request.atms = <<100 * Scale, 100 * Scale, 100 * Scale>>
    /\ request.vehicles = <<250 * Scale>>

\* C9 (as claimed): when the total required cash exceeds the fleet's capacity
\* the plan still serves a subset within capacity; in the round trip scenario
\* it serves exactly two of the three dispensers on the one route.
C9_Original ==
    /\ (Called /\ request.atms # << >> /\ TotalRequired > TotalCapacity) =>
          (Succeeded /\ Served # {} /\ Served # 1..Len(request.atms))
    /\ RoundTripScenario =>
          (Succeeded /\ Len(result.routes) = 1 /\ Cardinality(Served) = 2)

\* the totals the routing model works with: every amount truncated
TruncatedRequired == SumSeq(demands(request.atms))
TruncatedCapacity == SumSeq(vehicle_capacities(request.vehicles))

NoPlan == result = FailedResult /\ Served = {}

\* C9 (amended): when the total required cash, each amount truncated to a
\* whole unit, exceeds the total truncated capacity of the vehicles, the
\* result is the failure of lines 146-152 (status failed, no route, no
\* dispenser served); so it is in the round trip scenario.
C9_OverCapacityFails ==
    /\ (Called /\ request.atms # << >> /\ TruncatedRequired > TruncatedCapacity) => NoPlan
    /\ RoundTripScenario => NoPlan

C9_Witness == RoundTripScenario /\ result.status = "failed"

\* no assignment of all candidates keeps every vehicle's load of required
\* amounts within its capacity
Infeasible ==
    \A sol \in Assignments(Len(request.atms), Len(request.vehicles)) :
        \E v \in 1..Len(request.vehicles) :
            LoadOf(sol[v], request.atms) > request.vehicles[v]

\* C10 (as claimed): when no assignment of all candidates within capacity
\* exists the result is the explicit failure with an empty route list and the
\* message about capacity, and no returned route exceeds its vehicle's capacity.
C10_InfeasibleFails ==
    /\ (Called /\ Infeasible) =>
          (result.status = "failed" /\ result.routes = << >> /\ result.message = NO_SOLUTION)
    /\ \A r \in 1..Len(result.routes) :
          result.routes[r].route_load <= result.routes[r].vehicle_capacity

(***************************************************************************)
(* Properties of the forecast resolution                                   *)
(***************************************************************************)
Resolved == forecast.tier # "None"

\* C3 (as claimed): whichever tier answers, the predictions are a sequence of
\* exactly horizon_days values, each of them >= 0.
C3_ForecastTotality ==
    Resolved =>
        /\ forecast.predictions.kind = "list"
        /\ Len(forecast.predictions.items) = forecast.days
        /\ \A i \in 1..Len(forecast.predictions.items) : forecast.predictions.items[i] >= 0

OtherModelExists(atm_id) == \E a \in Dispensers : a # atm_id /\ files[a] # {}
History(atm_id) == IF atm_id \in Dispensers THEN txCount[atm_id] ELSE 0

\* the tier the claimed order gives
ClaimedTier(atm_id) ==
    IF atm_id \in Dispensers /\ files[atm_id] # {} THEN "trained_model"
    ELSE IF OtherModelExists(atm_id) THEN "nearest_neighbor"
    ELSE IF History(atm_id) >= 30 THEN "historical_average"
    ELSE "conservative_estimate"

\* C4 (as claimed): the first applicable tier in the order trained-model,
\* nearest-neighbor, historical-average, conservative-default produces the
\* result, and a nearest-neighbor tier without a modeled dispenser is skipped.
C4_Original == Resolved => forecast.tier = ClaimedTier(forecast.atm_id)

\* the tier of the fallback, in the order of lines 144-163
FallbackTier(atm_id, db) ==
    IF db /\ atm_id \in Dispensers /\ txCount[atm_id] >= 30 THEN "historical_average"
    ELSE IF db /\ atm_id \in Dispensers THEN "nearest_neighbor"
    ELSE "conservative_estimate"

\* C4 (amended): the order is trained-model, historical-average,
\* nearest-neighbor, conservative-default.  With a model file, and unless the
\* prediction service raises, the trained-model tier answers; otherwise with
\* a session and 30 or more transactions historical-average answers, also
\* when another dispenser has a model; otherwise with a session and an ATM
\* row nearest-neighbor answers, and when it finds no modeled dispenser it
\* returns its own flat 50000 per day, no later tier running; otherwise
\* conservative-default answers.
C4_TierOrder ==
    Resolved =>
        LET a == forecast.atm_id
            withModel == a \in Dispensers /\ files[a] # {}
        IN  /\ (withModel /\ ~forecast.raised) => forecast.tier = "trained_model"
            /\ (~withModel \/ forecast.raised) =>
                  forecast.tier = FallbackTier(a, forecast.db)
            /\ forecast.raised => withModel
            /\ forecast.tier = "nearest_neighbor" =>
                  /\ forecast.neighbor = 0 <=> ~OtherModelExists(a)
                  /\ forecast.neighbor = 0 =>
                        forecast.predictions = PyList(Repeat(50000, forecast.days))

\* 30 or more transactions, no own model, another dispenser with a model:
\* the history answers, not the neighbour
C4_Witness ==
    /\ forecast.tier = "historical_average"
    /\ forecast.atm_id \in Dispensers
    /\ files[forecast.atm_id] = {}
    /\ OtherModelExists(forecast.atm_id)

\* C17 (as claimed): the tier named in the metadata of a resolution is the
\* tier that produced the returned values, in every case.
C17_MetadataNamesTier == Resolved => forecast.metadata = forecast.tier

(***************************************************************************)
(* Properties of the emergency rerouting                                   *)
(***************************************************************************)
Rerouted == advised.fn = "emergency_rerouting"

\* the location before and after the zero-based position k of the planned
\* route, as travelled from the vehicle's current location
PrevLocation(k) ==
    IF k = 0 THEN asked.vehicle_current_location ELSE asked.route[k].location

\* the distance the insertion at the zero-based position k adds:
\* d(prev, new) + d(new, next) - d(prev, next), without the next leg after
\* the last stop
AddedDistance(k) ==
    IF k = Len(asked.route)
    THEN haversine_distance(PrevLocation(k), asked.atm_location)
    ELSE haversine_distance(PrevLocation(k), asked.atm_location)
         + haversine_distance(asked.atm_location, asked.route[k + 1].location)
         - haversine_distance(PrevLocation(k), asked.route[k + 1].location)

\* C11 (as claimed): the position chosen among the n+1 insertion positions is
\* one whose insertion adds the least distance to the route travelled from
\* the vehicle's current location.
C11_LeastAddedDistance ==
    Rerouted =>
        \A k \in 0..Len(asked.route) :
            AddedDistance(advised.insertion_index) <= AddedDistance(k)

\* the modified route without its k-th stop
Without(route, k) == SubSeq(route, 1, k - 1) \o SubSeq(route, k + 1, Len(route))

IsEmergencyStop(stop) ==
    /\ stop.type = "emergency"
    /\ stop.atm_id = asked.emergency_atm_id
    /\ stop.location = asked.atm_location

\* the emergency stop is the k-th of n+1 stops, the n planned stops keep their
\* order, and the caller's route is as it was
InsertedAt(k) ==
    /\ advised.modified_route_length = Len(asked.route) + 1
    /\ Len(advised.modified_route) = Len(asked.route) + 1
    /\ k \in 1..Len(advised.modified_route)
    /\ IsEmergencyStop(advised.modified_route[k])
    /\ Without(advised.modified_route, k) = asked.route
    /\ advised.route_after = asked.route

\* C12 (as claimed): the returned insertion index k is one-based,
\* 1 <= k <= n+1; the modified sequence has n+1 stops, the emergency stop is
\* its k-th, the planned stops keep their order and the input is not modified.
C12_Original ==
    Rerouted =>
        /\ advised.insertion_index \in 1..(Len(asked.route) + 1)
        /\ InsertedAt(advised.insertion_index)

\* C12 (amended): the returned insertion_index i is zero-based, 0 <= i <= n,
\* and the recommendation names the one-based position i+1; the modified
\* sequence has n+1 stops, the emergency stop is its (i+1)-th, the planned
\* stops keep their order and the input is not modified.
C12_ZeroBasedIndex ==
    Rerouted =>
        /\ advised.insertion_index \in 0..Len(asked.route)
        /\ advised.recommended_position = advised.insertion_index + 1
        /\ InsertedAt(advised.insertion_index + 1)

\* the emergency stop went between two planned stops
C12_Witness ==
    /\ Rerouted
    /\ advised.insertion_index > 0
    /\ advised.insertion_index < Len(asked.route)
    /\ advised.modified_route[advised.insertion_index + 1].type = "emergency"

(***************************************************************************)
(* Properties of the priority score                                        *)
(***************************************************************************)
Scored == advised.fn = "calculate_priority_score"

\* urgency_factor as claimed, in halves: 3.0 below 20% of the capacity,
\* 2.0 below 40%, 1.5 below 60%, 1.0 otherwise
ClaimedUrgency ==
    IF 100 * asked.current_balance < 20 * asked.capacity THEN 6
    ELSE IF 100 * asked.current_balance < 40 * asked.capacity THEN 4
    ELSE IF 100 * asked.current_balance < 60 * asked.capacity THEN 3
    ELSE 2

\* (predicted_demand / capacity) x min(days / 7, 2.0) x urgency_factor in
\* ten-thousandths, as the fraction ProductNum / ProductDen
ProductNum ==
    asked.predicted_demand * Min(asked.days_since_last_refill, 14) * ClaimedUrgency * 10000
ProductDen == asked.capacity * 7 * 2

\* capacity 200,000, balance 45,000, 7-day demand 300,000, 5 days
ExampleScored ==
    /\ Scored
    /\ asked.capacity = 200
    /\ asked.current_balance = 45
    /\ asked.predicted_demand = 300
    /\ asked.days_since_last_refill = 5

Identified == advised.fn = "identify_critical_atms" /\ ~advised.raised

\* C14: a dispenser is classified critical if priority >= 2.5, otherwise
\* high if priority >= threshold, otherwise medium if priority >= 1.0,
\* otherwise low, for every priority and every threshold.
C14_Classification ==
    (advised.fn = "identify_critical_atms") =>
        \A i \in 1..Len(advised.atm_infos) :
            LET priority == advised.atm_infos[i].priority_score
                class == advised.atm_infos[i].criticality
            IN  /\ class = "critical" <=> priority >= 25000
                /\ class = "high" <=> (priority < 25000 /\ priority >= asked.threshold)
                /\ class = "medium" <=>
                      (priority < 25000 /\ priority < asked.threshold /\ priority >= 10000)
                /\ class = "low" <=>
                      (priority < 25000 /\ priority < asked.threshold /\ priority < 10000)

\* a threshold above 2.5 with one dispenser critical and one medium
C14_Witness ==
    /\ Identified
    /\ asked.threshold > 25000
    /\ \E i, k \in 1..Len(advised.atm_infos) :
          /\ advised.atm_infos[i].criticality = "critical"
          /\ advised.atm_infos[k].criticality = "medium"

\* the priority of the n-th input dispenser
InputPriority(n) ==
    calculate_priority_score(
        SumSeq(SubSeq(asked.ml_forecasts[asked.atms_data[n].id].demands, 1,
                      Min(7, Len(asked.ml_forecasts[asked.atms_data[n].id].demands)))),
        asked.atms_data[n].capacity, 5, asked.atms_data[n].current_balance)

\* the input dispensers with a non-empty forecast whose priority is >= the
\* threshold or whose class is critical
Qualifying ==
    {n \in 1..Len(asked.atms_data) :
        /\ asked.ml_forecasts[asked.atms_data[n].id].known
        /\ asked.ml_forecasts[asked.atms_data[n].id].demands # << >>
        /\ (InputPriority(n) >= asked.threshold \/ InputPriority(n) >= 25000)}

\* C15: the returned list contains exactly the qualifying input dispensers,
\* each once: none is missing and no other dispenser appears.
C15_ExactlyQualifying ==
    Identified =>
        \E f \in [1..Len(advised.critical_atms) -> Qualifying] :
            /\ \A a, b \in 1..Len(advised.critical_atms) : f[a] = f[b] => a = b
            /\ \A n \in Qualifying : \E a \in 1..Len(advised.critical_atms) : f[a] = n
            /\ \A a \in 1..Len(advised.critical_atms) :
                  /\ advised.critical_atms[a].atm_id = asked.atms_data[f[a]].id
                  /\ advised.critical_atms[a].priority_score = InputPriority(f[a])

\* a critical dispenser below the caller's threshold is returned and another
\* input dispenser is left out
C15_Witness ==
    /\ Identified
    /\ Len(advised.atm_infos) = 2
    /\ Len(advised.critical_atms) = 1
    /\ advised.critical_atms[1].priority_score < asked.threshold

\* C16 (as claimed): the returned list is in non-increasing priority order
\* and dispensers of equal priority are in ascending id order.
C16_SortedWithIdTieBreak ==
    Identified =>
        \A a, b \in 1..Len(advised.critical_atms) :
            a < b =>
                /\ advised.critical_atms[a].priority_score
                      >= advised.critical_atms[b].priority_score
                /\ (advised.critical_atms[a].priority_score
                        = advised.critical_atms[b].priority_score)
                      => advised.critical_atms[a].atm_id <= advised.critical_atms[b].atm_id

(***************************************************************************)
(* The last-trained fields of a dispenser (model_trainer.py lines 221-252) *)
(***************************************************************************)
\* the step in which the thread of job j leaves the retry loop by its break:
\* the dispenser was found in storage and the job stays completed
EndsCompleted(j) ==
    /\ wk[j].pc = "commit"
    /\ wk'[j].pc = "done"
    /\ heap[j].status = "completed"

LastTrained(row) == <<row.last_trained_profile, row.last_trained_at>>

\* C18 (as claimed): a job that ends completed for a dispenser present in
\* storage sets the dispenser's last-trained profile to the detected profile
\* and sets the timestamp, and the two fields change in no other step.
C18_UpdatedIffCompleted ==
    [][/\ \A j \in Allocated :
             EndsCompleted(j) =>
                 /\ storage'[heap[j].atm_id].last_trained_profile = wk[j].detected_profile
                 /\ storage'[heap[j].atm_id].last_trained_at = Now
       /\ (\E a \in ATMS : LastTrained(storage'[a]) # LastTrained(storage[a]))
             => \E j \in Allocated : EndsCompleted(j)]_vars

(***************************************************************************)
(* The staleness flag of a dispenser snapshot (app.py lines 335-357)       *)
(***************************************************************************)
\* the row holds the record of a completed training
HasCompletedTraining(row) == row.last_trained_at # 0

\* C19 (as claimed): the snapshot's profile_changed is true exactly when the
\* dispenser has a completed training and its detected profile differs from
\* the profile recorded at that training, the default profile included.
C19_StaleExactlyWhenProfileDiffers ==
    \A a \in ATMS :
        profile_changed(storage[a])
            <=> /\ HasCompletedTraining(storage[a])
                /\ detect_atm_profile(storage[a]) # storage[a].last_trained_profile

(***************************************************************************)
(* The status query (model_trainer.py lines 100-102, app.py 1998-2020)     *)
(***************************************************************************)
\* the query for d answers with the job created last for d
AnswersCurrentJob(d) ==
    /\ get_job_status(d) # 0
    /\ heap[get_job_status(d)].atm_id = d
    /\ \A k \in Allocated : heap[k].atm_id = d => k <= get_job_status(d)

\* C20 (as claimed): the status query for d returns the current job of d
\* whenever a training was ever requested for d, and "no job" only if no
\* training was ever requested for d.
C20_Original ==
    \A d \in ATMS :
        /\ d \in requested => AnswersCurrentJob(d)
        /\ get_job_status(d) = 0 => d \notin requested

\* the step takes the job of d out of the table
Forgets(d) == get_job_status(d) # 0 /\ get_job_status(d)' = 0

\* C20 (amended): the status query for d returns "no job" when no training
\* was ever requested for d; a request puts a job of d in the table; the
\* job in the table is the one created last for d; and the job leaves the
\* table only when it has finished (completed or failed), so a requested
\* dispenser answers "no job" only after clear_completed_jobs removed its
\* finished job.
C20_CurrentUnlessCleared ==
    /\ [](\A d \in ATMS :
             /\ d \notin requested => get_job_status(d) = 0
             /\ get_job_status(d) # 0 => AnswersCurrentJob(d))
    /\ [][\A d \in ATMS :
             /\ (d \notin requested /\ d \in requested') => AnswersCurrentJob(d)'
             /\ Forgets(d) =>
                    /\ heap[get_job_status(d)].status \in {"completed", "failed"}
                    /\ heap[get_job_status(d)].completed_at # 0]_vars

\* a training was requested for d, its job finished and was cleared
C20_Witness ==
    \E d \in requested : get_job_status(d) = 0

(***************************************************************************)
(* Data insufficiency at the training endpoint                             *)
(***************************************************************************)
INSUFFICIENT == "Insufficient training data"

\* the step is a request that the endpoint answers with 400
RejectedStep == lastCall' # lastCall /\ lastCall'.ret = 0

\* C21 (as claimed): a training request for a dispenser with too little
\* history is rejected before any job exists (the job table is unchanged and
\* no worker is started), and no job is created that then fails for
\* insufficient data.
C21_RejectedBeforeAnyJob ==
    /\ [][RejectedStep => /\ jobs' = jobs
                          /\ Len(heap') = Len(heap)
                          /\ wk' = wk]_vars
    /\ [](\A j \in Allocated : heap[j].error # INSUFFICIENT)

(***************************************************************************)
(* Readers of the artifact files while they are written                    *)
(***************************************************************************)
\* a set of files that holds a trained model: a complete ARIMA file, or a
\* complete LSTM file with its complete scaler
TrainedSet(files_read) ==
    \/ Complete(files_read.arima)
    \/ Complete(files_read.lstm) /\ Complete(files_read.scaler)

\* C22 (as claimed): a reader that runs while the files are written never
\* treats a partially written set as a trained model: has_trained_model is
\* true only for a set that holds a complete model, and load_models loads
\* an LSTM model only together with the scaler of the same training.
C22_NoPartialArtifacts ==
    /\ (seen.fn = "has_trained_model" /\ seen.trained) => TrainedSet(seen.files)
    /\ (seen.fn = "load_models" /\ seen.loaded.lstm_models # "None")
          => seen.loaded.lstm_scalers = seen.loaded.lstm_models

(***************************************************************************)
(* The distances and costs of a successful plan                            *)
(***************************************************************************)
Costed == asked.fn = "extract_solution" /\ advised # NoAdvice

\* the closed tour depot -> stop 1 -> ... -> last stop -> depot, each leg once
TourLength(path, positions) ==
    SumSeq([k \in 1..(Len(path) + 1) |->
               distance_matrix(NodePosition(path, positions, k - 1),
                               NodePosition(path, positions, k))])

\* C23 (as claimed): every route's total_distance is the length of its closed
\* tour with the return leg counted once, its estimated_cost is that distance
\* times the vehicle's cost per kilometre, and the plan's total_distance and
\* total_cost are the sums over its routes.
C23_ClosedTourOnce ==
    Costed =>
        /\ \A i \in 1..Len(advised.routes) :
              LET r == advised.routes[i]
                  tour == TourLength(r.path, asked.positions)
              IN  /\ r.total_distance = RoundHalfEven(tour, 100)
                  /\ r.estimated_cost = RoundHalfEven(tour * asked.fuel[r.vehicle], 100)
        /\ advised.total_distance =
              RoundHalfEven(SumSeq([i \in 1..Len(advised.routes) |->
                  TourLength(advised.routes[i].path, asked.positions)]), 100)
        /\ advised.total_cost =
              RoundHalfEven(SumSeq([i \in 1..Len(advised.routes) |->
                  TourLength(advised.routes[i].path, asked.positions)
                      * asked.fuel[advised.routes[i].vehicle]]), 100)

(***************************************************************************)
(* The replacement of a broken vehicle                                     *)
(***************************************************************************)
Simulated == asked.fn = "vehicle_breakdown_simulation" /\ advised # NoAdvice

\* the places in the list of the vehicles that may replace the broken one
Candidates ==
    {n \in 1..Len(asked.available_vehicles) :
        /\ asked.available_vehicles[n].id # asked.broken_vehicle_id
        /\ asked.available_vehicles[n].status = "available"
        /\ asked.available_vehicles[n].capacity >= asked.current_route.total_cash_needed}

\* the place in the list of the recommended vehicle
RecommendedPlace == advised.recommended_vehicle.vehicle_id

NoneOrCandidate ==
    IF Candidates = {}
    THEN advised.status = "critical" /\ advised.recommended_vehicle = "None"
    ELSE advised.status = "resolved" /\ RecommendedPlace \in Candidates

\* C24 (as claimed): the recommended vehicle is not the broken one, is
\* available and has the capacity, and has the lowest blended score of all
\* such vehicles; when there is none the result recommends none.
C24_Original ==
    Simulated =>
        /\ NoneOrCandidate
        /\ \A n \in Candidates :
              BlendedScore(asked.available_vehicles[RecommendedPlace], asked.current_route)
                 <= BlendedScore(asked.available_vehicles[n], asked.current_route)

ReportedScore(n) ==
    RoundHalfEven(BlendedScore(asked.available_vehicles[n], asked.current_route), 10)

\* C24 (amended): the recommended vehicle is not the broken one, is
\* available and has the capacity; its reported priority_score, the blended
\* score rounded to two decimals, is the lowest of all such vehicles, and of
\* the vehicles with that rounded score it is the first in the list; when
\* there is none the result recommends none.
C24_LowestRoundedScore ==
    Simulated =>
        /\ NoneOrCandidate
        /\ \A n \in Candidates :
              /\ advised.recommended_vehicle.priority_score = ReportedScore(RecommendedPlace)
              /\ ReportedScore(RecommendedPlace) <= ReportedScore(n)
              /\ ReportedScore(RecommendedPlace) = ReportedScore(n) => RecommendedPlace <= n

\* two vehicles may replace the broken one, their scores round to the same
\* value, and the recommended one is not the one of lowest blended score
C24_Witness ==
    /\ Simulated
    /\ \E n \in Candidates :
          /\ ReportedScore(n) = ReportedScore(RecommendedPlace)
          /\ BlendedScore(asked.available_vehicles[n], asked.current_route)
                < BlendedScore(asked.available_vehicles[RecommendedPlace], asked.current_route)

(***************************************************************************)
(* The nearest dispenser that has a trained model                          *)
(***************************************************************************)
NearestFound == asked.fn = "find_nearest_atm_with_model" /\ advised # NoAdvice

\* the other dispensers that have a trained model
OthersWithModel == {a \in Dispensers : a # asked.atm_id /\ has_trained_model(a)}

\* the answer is none when no other dispenser has a model, and otherwise
\* one of them at the least distance
NearestOfOthers ==
    IF OthersWithModel = {}
    THEN advised.nearest_atm = 0
    ELSE /\ advised.nearest_atm \in OthersWithModel
         /\ \A a \in OthersWithModel :
               Distance(asked.atm_id, advised.nearest_atm) <= Distance(asked.atm_id, a)

Toured == asked.fn = "optimize_single_route" /\ advised # NoAdvice

TourCandidates == (DOMAIN asked.positions) \ {0}

\* the node the tour is at before its k-th stop: the depot, then the stops
TourNode(k) == IF k = 0 THEN 0 ELSE advised.stops[k].atm

\* the candidates not visited before the k-th stop
Unvisited(k) == TourCandidates \ {advised.stops[j].atm : j \in 1..(k - 1)}

LegLength(k) ==
    distance_matrix(asked.positions[TourNode(k - 1)],
                    asked.positions[IF k > Len(advised.stops) THEN 0 ELSE TourNode(k)])

\* C26: optimize_single_route returns for every input; its tour starts at the
\* depot, every stop is an unvisited candidate at minimal distance from the
\* location before it (the one of least index among equally near ones, so
\* the tour is a function of the input), every candidate is visited exactly
\* once with sequence numbers 1..n, and total_distance is the length of
\* the legs plus the return to the depot.
C26_NearestNeighbourTour ==
    Toured =>
        /\ Len(advised.stops) = Cardinality(TourCandidates)
        /\ {advised.stops[k].atm : k \in 1..Len(advised.stops)} = TourCandidates
        /\ \A k \in 1..Len(advised.stops) :
              /\ advised.stops[k].sequence = k
              /\ advised.stops[k].atm \in Unvisited(k)
              /\ \A y \in Unvisited(k) :
                    \/ LegLength(k) < distance_matrix(asked.positions[TourNode(k - 1)],
                                                      asked.positions[y])
                    \/ /\ LegLength(k) = distance_matrix(asked.positions[TourNode(k - 1)],
                                                         asked.positions[y])
                       /\ advised.stops[k].atm <= y
        /\ advised.total_distance =
              IF TourCandidates = {} THEN 0
              ELSE RoundHalfEven(SumSeq([k \in 1..(Len(advised.stops) + 1) |-> LegLength(k)]),
                                 100)

\* a tour of three stops that does not follow the order of the input and
\* that has a positive return leg
C26_Witness ==
    /\ Toured
    /\ Len(advised.stops) = 3
    /\ advised.stops[1].atm # 1
    /\ LegLength(4) > 0

(***************************************************************************)
(* The recommended refill interval                                         *)
(***************************************************************************)
Recommended == asked.fn = "get_optimal_refill_frequency" /\ advised # NoAdvice

Buckets == {"daily", "every_2_days", "weekly", "bi_weekly"}

\* the sum of the series and n^2 times its variance
SeriesSum == SumSeq(asked.predicted_demands)
SeriesVar == Len(asked.predicted_demands) * SumSquares(asked.predicted_demands)
                 - SeriesSum * SeriesSum

\* the buffer factor in fifths: 0.8 for a coefficient of variation below
\* 0.2, 0.6 below 0.4, 0.4 otherwise; the coefficient is 0 when the mean is
\* not positive
BufferFifths ==
    IF SeriesSum <= 0 \/ 25 * SeriesVar < SeriesSum * SeriesSum THEN 4
    ELSE IF 25 * SeriesVar < 4 * SeriesSum * SeriesSum THEN 3
    ELSE 2

\* days_until_empty x buffer_factor as the fraction ProductTop / ProductBottom
ProductTop ==
    IF SeriesSum > 0
    THEN asked.current_balance * Len(asked.predicted_demands) * BufferFifths
    ELSE 30 * BufferFifths
ProductBottom == IF SeriesSum > 0 THEN 5 * SeriesSum ELSE 5

\* C27 (as claimed): for every input recommended_days is
\* clamp(days_until_empty x buffer_factor, 1, 14), lies in 1..14, and the
\* result has a frequency bucket.
C27_Original ==
    Recommended =>
        /\ advised.recommended_days \in 1..14
        /\ advised.frequency \in Buckets
        /\ IF ProductTop <= ProductBottom THEN advised.recommended_days = 1
           ELSE IF ProductTop >= 14 * ProductBottom THEN advised.recommended_days = 14
           ELSE advised.recommended_days * ProductBottom = ProductTop

\* C27 (amended): for a series that is not empty and a positive capacity
\* recommended_days is clamp(days_until_empty x buffer_factor cut to a whole
\* number, 1, 14) and the frequency is the bucket of recommended_days; for
\* an empty series or a capacity that is not positive the result is 7 days
\* with low confidence and no frequency.
C27_TruncatedClamp ==
    Recommended =>
        IF asked.predicted_demands = << >> \/ asked.capacity <= 0
        THEN /\ advised.recommended_days = 7
             /\ advised.confidence = "low"
             /\ advised.frequency = "None"
        ELSE /\ advised.recommended_days \in 1..14
             /\ advised.recommended_days = Max(1, Min(ProductTop \div ProductBottom, 14))
             /\ advised.frequency \in Buckets
             /\ advised.frequency = "daily" <=> advised.recommended_days <= 2
             /\ advised.frequency = "every_2_days" <=> advised.recommended_days \in 3..4
             /\ advised.frequency = "weekly" <=> advised.recommended_days \in 5..7
             /\ advised.frequency = "bi_weekly" <=> advised.recommended_days >= 8

\* a series of medium variability whose product is cut: 450 / 150 x 0.6 = 1.8
C27_Witness ==
    /\ Recommended
    /\ asked.capacity > 0
    /\ BufferFifths = 3
    /\ ProductTop > ProductBottom
    /\ ProductTop % ProductBottom # 0
    /\ advised.recommended_days = 1

(***************************************************************************)
(* One training worker per dispenser                                       *)
(***************************************************************************)
\* the threads of dispenser a that have not ended
LiveWorkers(a) == {j \in Allocated : wk[j].pc # "done" /\ heap[j].atm_id = a}

\* C28: at most one training worker is live for a dispenser, so that when
\* start_training creates a job the worker of the dispenser's previous job
\* has made all its writes, to the job and to the last-trained fields.
C28_OneWorkerPerDispenser ==
    \A a \in ATMS : Cardinality(LiveWorkers(a)) <= 1

(***************************************************************************)
(* Every job ends                                                          *)
(***************************************************************************)
\* job j has left the queued and running statuses (a job that nothing
\* refers to any more left them before it was freed)
Settled(j) == j \in Allocated /\ ~IsActive(heap[j].status)

\* start_training(a) would take the branch that creates a job (line 86)
Startable(a) == jobs[a] = 0 \/ ~IsActive(heap[jobs[a]].status)

\* C29: under fair scheduling of the threads every job reaches the status
\* completed or failed and is never queued or running again, its thread
\* ends, and every dispenser is again and again in a state where
\* start_training creates a fresh job.
C29_EveryJobEnds ==
    /\ \A j \in 1..MaxJobs : [](j \in Allocated => <>[](Settled(j) /\ wk[j].pc = "done"))
    /\ \A a \in ATMS : []<>Startable(a)

\* a job whose commit found the database locked twice and then ended
C29_Witness ==
    \E j \in Allocated :
        /\ Settled(j)
        /\ wk[j].pc = "done"
        /\ heap[j].status = "failed"
        /\ heap[j].error = "database is locked"

(***************************************************************************)
(* The stops of a plan                                                     *)
(***************************************************************************)
Planned == result.status = "success"

\* the places (route, position) at which candidate n is a stop of the plan
PlacesOf(n) ==
    {pl \in (DOMAIN result.routes) \X (1..MaxStops) :
        /\ pl[2] \in DOMAIN result.routes[pl[1]].stops
        /\ result.routes[pl[1]].stops[pl[2]].atm = n}

\* C30: in a plan of status success every candidate is a stop of exactly
\* one route exactly once, the stops of a route are numbered 1..k in
\* order, every route has a stop, and total_atms is the number of
\* candidates.
C30_EveryCandidateOnce ==
    Planned =>
        /\ \A n \in 1..Len(request.atms) : Cardinality(PlacesOf(n)) = 1
        /\ \A r \in DOMAIN result.routes :
              /\ Len(result.routes[r].stops) >= 1
              /\ result.routes[r].total_stops = Len(result.routes[r].stops)
              /\ \A i \in DOMAIN result.routes[r].stops :
                    /\ result.routes[r].stops[i].sequence = i
                    /\ result.routes[r].stops[i].atm \in 1..Len(request.atms)
        /\ result.total_atms = Len(request.atms)
        /\ result.total_routes = Len(result.routes)

\* a plan of two routes, one with two stops visited out of input order,
\* from a fleet one of whose vehicles stays at the depot or not
C30_Witness ==
    /\ Planned
    /\ Len(request.atms) = MaxStops
    /\ Len(result.routes) = 2
    /\ \E r \in DOMAIN result.routes :
          /\ Len(result.routes[r].stops) = 2
          /\ result.routes[r].stops[1].atm > result.routes[r].stops[2].atm

====
